---- MODULE Spec2Model ----
(***************************************************************************)
(* Model of the profit-log analyzer of torn-helper (class ProfitLogger in  *)
(* src/unnamed/part_005): amount extraction, transaction classification,   *)
(* log fetching, deduplication, daily aggregation, bazaar analytics, and   *)
(* the page that starts an analysis; and of the rate limiter of            *)
(* TornExchangeAPI (src/src/api/tornexchange.ts).                          *)
(*                                                                         *)
(* JavaScript strings are TLA+ strings; String.prototype.includes and      *)
(* toLowerCase are computed character by character.  Date values are       *)
(* milliseconds since the epoch; a time zone is a pair of UTC offsets with *)
(* the instant at which the zone switches from the first to the second.    *)
(* The string "YYYY-MM-DD" that toISOString().split('T')[0] produces is    *)
(* represented by the number of the UTC day it names.                      *)
(***************************************************************************)
EXTENDS Integers, Sequences, FiniteSets, TLC

VARIABLES
  probe,         \* the argument handed to one component on its own
  probeOut,      \* what the component returned for probe
  clockMs,       \* Date.now()
  tz,            \* the time zone of the browser
  pc,            \* position of analyzeProfitForDays: idle, fetching, done
  days,          \* argument of analyzeProfitForDays
  now,           \* local `now` of analyzeProfitForDays (epoch seconds)
  fromTimestamp, \* local `fromTimestamp` of analyzeProfitForDays
  serverLog,     \* the entries the log API can answer with
  fetch,         \* per category: the locals of the running fetchLogs call
  categoryLogs,  \* per category: [moneyLogs, outgoingLogs, incomingLogs]
  allLogs,       \* [...moneyLogs, ...outgoingLogs, ...incomingLogs]
  uniqueLogs,    \* Array.from(uniqueLogsMap.values()), before the sort
  deduplicatedLogs, \* the same array after the in-place sort
  dailyProfits,  \* the DailyProfit[] returned
  itemMapping,   \* this.itemMapping: item id -> item name
  unknownItemIds, \* this.unknownItemIds
  itemCache,     \* localStorage under the key of the item cache
  itemRequests,  \* torn/items requests sent by the latest analysis run
  catalogServer, \* per item category: what the items API answers
  api,           \* per log category: how the log API answers
  ui,            \* the page: which sections are hidden, the button disabled
  hasApi,        \* this.api is set: an API key was stored
  runsLeft,      \* analysis runs the user still starts
  lastRequestTime, \* this.lastRequestTime of one TornExchangeAPI
  calls,         \* per call of a TornExchangeAPI method: where it stands
  requestTimes   \* Date.now() at each HTTP request sent to TornExchange

\* the locals of analyzeProfitForDays past Promise.all, and what it returns
resultVars == << categoryLogs, allLogs, uniqueLogs, deduplicatedLogs,
                 dailyProfits >>

\* the item names of the ProfitLogger and where they come from
itemVars == << itemMapping, unknownItemIds, itemCache, itemRequests,
               catalogServer >>

runVars == << clockMs, tz, pc, days, now, fromTimestamp, serverLog, fetch,
              resultVars, itemVars, api, ui, hasApi, runsLeft >>

\* one TornExchangeAPI and the calls of its methods
exchangeVars == << lastRequestTime, calls, requestTimes >>

vars == << probe, probeOut, runVars, exchangeVars >>

-----------------------------------------------------------------------------
(* Bounds of the model *)

\* number of amount fields an entry under test carries at most
MaxFields == 2

\* number of entries the log API returns in one analysis run at most
MaxLogs == 2

\* number of days an analysis is asked for at most
MaxDays == 2

\* number of analysis runs of one session at most
MaxRuns == 2

\* number of bazaar trades of one day at most
MaxTrades == 3

\* the day of the epoch on which the model's clock starts
Today == 10

\* number of calls made on one TornExchangeAPI at most
MaxCalls == 3

\* number of steps the clock of the TornExchangeAPI model advances at most
MaxTicks == 5

-----------------------------------------------------------------------------
(* Generic helpers *)

\* the elements of the sequence s
Range(s) == { s[i] : i \in 1..Len(s) }

Min(S) == CHOOSE x \in S : \A y \in S : x <= y

Max(S) == CHOOSE x \in S : \A y \in S : x >= y

RECURSIVE SubsetsUpTo(_, _)
SubsetsUpTo(S, n) ==
  IF n = 0 THEN {{}}
  ELSE LET prev == SubsetsUpTo(S, n - 1)
       IN  prev \cup { T \cup {x} : T \in prev, x \in S }

RECURSIVE SeqsUpTo(_, _)
SeqsUpTo(S, n) ==
  IF n = 0 THEN {<<>>}
  ELSE LET prev == SeqsUpTo(S, n - 1)
       IN  prev \cup { Append(s, x) : s \in prev, x \in S }

RECURSIVE SumSeq(_)
SumSeq(s) == IF s = <<>> THEN 0 ELSE Head(s) + SumSeq(Tail(s))

\* the sum of f[x] over the x in S
RECURSIVE SumOver(_, _)
SumOver(f, S) ==
  IF S = {} THEN 0
  ELSE LET x == CHOOSE y \in S : TRUE IN f[x] + SumOver(f, S \ {x})

\* the rearrangements of the sequence s
Rearrangements(s) ==
  { [ i \in 1..Len(s) |-> s[p[i]] ] : p \in Permutations(1..Len(s)) }

-----------------------------------------------------------------------------
(* Strings *)

UpperCaseLetters == "ABCDEFGHIJKLMNOPQRSTUVWXYZ"

LowerCaseLetters == "abcdefghijklmnopqrstuvwxyz"

LowerChar(c) ==
  IF \E i \in 1..Len(UpperCaseLetters) : SubSeq(UpperCaseLetters, i, i) = c
  THEN LET i == CHOOSE j \in 1..Len(UpperCaseLetters) :
                    SubSeq(UpperCaseLetters, j, j) = c
       IN  SubSeq(LowerCaseLetters, i, i)
  ELSE c

RECURSIVE toLowerCase(_)
toLowerCase(s) ==
  IF Len(s) = 0 THEN ""
  ELSE LowerChar(SubSeq(s, 1, 1)) \o toLowerCase(SubSeq(s, 2, Len(s)))

\* s.includes(k)
includes(s, k) ==
  \E i \in 1..(Len(s) - Len(k) + 1) : SubSeq(s, i, i + Len(k) - 1) = k

-----------------------------------------------------------------------------
(* Log entries.  data maps the field names present to their numbers;       *)
(* color "none" stands for an absent params.color.                         *)

LogEntry(id, timestamp, title, category, color, data) ==
  [ id |-> id, timestamp |-> timestamp, title |-> title,
    category |-> category, color |-> color, data |-> data ]

\* data.f && data.f > 0
positive(data, f) == f \in DOMAIN data /\ data[f] # 0 /\ data[f] > 0

\* a plausible slip: money_gained is tested before cost_total
extractAmount_swapped(log) ==
  LET data == log.data
  IN  IF positive(data, "money_gained") THEN data["money_gained"]
      ELSE IF positive(data, "cost_total") THEN data["cost_total"]
      ELSE IF positive(data, "money_mugged") THEN data["money_mugged"]
      ELSE IF positive(data, "bet_amount") THEN data["bet_amount"]
      ELSE IF positive(data, "bet") THEN data["bet"]
      ELSE IF positive(data, "withdrawn") THEN data["withdrawn"]
      ELSE IF positive(data, "cost") THEN data["cost"]
      ELSE IF positive(data, "money") THEN data["money"]
      ELSE IF positive(data, "won_amount") THEN data["won_amount"]
      ELSE IF positive(data, "pot") THEN data["pot"]
      ELSE IF positive(data, "credits") THEN data["credits"]
      ELSE IF positive(data, "pay") THEN data["pay"]
      ELSE IF positive(data, "rent") THEN data["rent"]
      ELSE IF positive(data, "upkeep_paid") THEN data["upkeep_paid"]
      ELSE IF positive(data, "donated") THEN data["donated"]
      ELSE IF positive(data, "bounty_reward") THEN data["bounty_reward"]
      ELSE IF positive(data, "deposited") THEN data["deposited"]
      ELSE IF positive(data, "amount") THEN data["amount"]
      ELSE IF positive(data, "fee") THEN data["fee"]
      ELSE IF positive(data, "value") THEN data["value"]
      ELSE 0

extractAmount(log) ==
  LET data == log.data
  IN  IF positive(data, "cost_total") THEN data["cost_total"]
      ELSE IF positive(data, "money_gained") THEN data["money_gained"]
      ELSE IF positive(data, "money_mugged") THEN data["money_mugged"]
      ELSE IF positive(data, "bet_amount") THEN data["bet_amount"]
      ELSE IF positive(data, "bet") THEN data["bet"]
      ELSE IF positive(data, "withdrawn") THEN data["withdrawn"]
      ELSE IF positive(data, "cost") THEN data["cost"]
      ELSE IF positive(data, "money") THEN data["money"]
      ELSE IF positive(data, "won_amount") THEN data["won_amount"]
      ELSE IF positive(data, "pot") THEN data["pot"]
      ELSE IF positive(data, "credits") THEN data["credits"]
      ELSE IF positive(data, "pay") THEN data["pay"]
      ELSE IF positive(data, "rent") THEN data["rent"]
      ELSE IF positive(data, "upkeep_paid") THEN data["upkeep_paid"]
      ELSE IF positive(data, "donated") THEN data["donated"]
      ELSE IF positive(data, "bounty_reward") THEN data["bounty_reward"]
      ELSE IF positive(data, "deposited") THEN data["deposited"]
      ELSE IF positive(data, "amount") THEN data["amount"]
      ELSE IF positive(data, "fee") THEN data["fee"]
      ELSE IF positive(data, "value") THEN data["value"]
      ELSE 0

-----------------------------------------------------------------------------
(* Classification *)

isNeutralTransaction(log) ==
  LET title == toLowerCase(log.title)
  IN  IF includes(title, "piggy bank deposit") THEN TRUE
      ELSE IF includes(title, "piggy bank withdraw") THEN TRUE
      ELSE IF includes(title, "bank deposit") /\ ~includes(title, "interest")
        THEN TRUE
      ELSE IF includes(title, "bank withdraw") /\ ~includes(title, "fee")
        THEN TRUE
      ELSE IF includes(title, "bank invest") THEN TRUE
      ELSE IF includes(title, "trade money add")
              \/ includes(title, "trade money remove") THEN TRUE
      ELSE IF includes(title, "faction money balance change") THEN TRUE
      ELSE FALSE

\* the rules of isIncomeTransaction that return false on a title alone
expenseRule(title) ==
  \/ includes(title, "buy") \/ includes(title, "purchase")
  \/ includes(title, "ammo buy")
  \/ includes(title, "bet") \/ includes(title, "lottery bet")
  \/ includes(title, "casino") /\ includes(title, "join")
  \/ includes(title, "casino") /\ includes(title, "start")
  \/ includes(title, "casino") /\ includes(title, "lose")
  \/ includes(title, "spin the wheel start")
  \/ includes(title, "high-low start")
  \/ includes(title, "russian roulette join")
  \/ includes(title, "russian roulette start")
  \/ includes(title, "blackjack start")
  \/ includes(title, "bookie bet")
  \/ includes(title, "deposit") \/ includes(title, "outgoing")
  \/ includes(title, "send") \/ includes(title, "transfer")
  \/ includes(title, "upkeep") \/ includes(title, "donate")
  \/ includes(title, "bounty place")
  \/ includes(title, "money send")
  \/ includes(title, "mug receive")
  \/ includes(title, "education start")
  \/ includes(title, "property upgrade")

\* the rules of isIncomeTransaction that return true on title and category
incomeRule(title, category) ==
  \/ includes(title, "sell") \/ includes(title, "sale")
  \/ includes(title, "win") \/ includes(title, "withdraw")
  \/ includes(title, "receive") \/ includes(title, "incoming")
  \/ includes(title, "gain") \/ includes(title, "profit")
  \/ includes(title, "complete") /\ includes(category, "missions")
  \/ includes(title, "pay") /\ ~includes(title, "upkeep")
  \/ includes(title, "rent") /\ includes(title, "owner")
  \/ includes(title, "cash in")

\* a plausible slip: the income rules are tried before the expense rules
isIncomeTransaction_incomeFirst(log) ==
  LET title == toLowerCase(log.title)
      category == toLowerCase(log.category)
      color == log.color
  IN  IF incomeRule(title, category) THEN TRUE
      ELSE IF expenseRule(title) THEN FALSE
      ELSE IF color = "green" THEN TRUE
      ELSE IF color = "red" THEN FALSE
      ELSE IF includes(category, "incoming") THEN TRUE
      ELSE IF includes(category, "outgoing") THEN FALSE
      ELSE FALSE

isIncomeTransaction(log) ==
  LET title == toLowerCase(log.title)
      category == toLowerCase(log.category)
      color == log.color
  IN  IF expenseRule(title) THEN FALSE
      ELSE IF incomeRule(title, category) THEN TRUE
      ELSE IF color = "green" THEN TRUE
      ELSE IF color = "red" THEN FALSE
      ELSE IF includes(category, "incoming") THEN TRUE
      ELSE IF includes(category, "outgoing") THEN FALSE
      ELSE FALSE

\* a plausible slip: the color hint decides before the neutral test
classify_colorFirst(log) ==
  IF log.color = "green" THEN "Income"
  ELSE IF isNeutralTransaction(log) THEN "Neutral"
  ELSE IF isIncomeTransaction(log) THEN "Income"
  ELSE "Expense"

\* the decision processDailyProfits takes for one entry: the neutral test
\* first (a neutral entry is skipped), the income test only after it
classify(log) ==
  IF isNeutralTransaction(log) THEN "Neutral"
  ELSE IF isIncomeTransaction(log) THEN "Income"
  ELSE "Expense"

-----------------------------------------------------------------------------
(* Time.  Date values are milliseconds since the epoch.                    *)

MsPerSecond == 1000

SecondsPerDay == 24 * 60 * 60

MsPerHour == 60 * 60 * MsPerSecond

MsPerDay == SecondsPerDay * MsPerSecond

\* 00:00:00 UTC of day number d
DayStartMs(d) == d * MsPerDay

FixedZone(offsetMs) ==
  [ before |-> offsetMs, after |-> offsetMs, switchAt |-> 0 ]

UTCZone == FixedZone(0)

\* the zone's offset from UTC at the instant t
OffsetAt(zone, t) == IF t < zone.switchAt THEN zone.before ELSE zone.after

\* LocalTime(t) of ECMAScript: the wall clock at the instant t
LocalTime(zone, t) == t + OffsetAt(zone, t)

\* UTC(w) of ECMAScript: the instant of the wall clock w; a wall clock that
\* is skipped or repeated by the switch is read with the offset before it
UTCOfLocal(zone, w) ==
  IF w - zone.before < zone.switchAt THEN w - zone.before
  ELSE IF w - zone.after >= zone.switchAt THEN w - zone.after
  ELSE w - zone.before

\* d = new Date(t); d.setDate(d.getDate() - i): the same wall-clock time of
\* day, i calendar days earlier
setDateBack(zone, t, i) == UTCOfLocal(zone, LocalTime(zone, t) - i * MsPerDay)

\* new Date(t).toISOString().split('T')[0], as the number of the UTC day
dateKey(t) == t \div MsPerDay

\* the calendar day of the instant t on the wall clock of the zone
LocalDay(zone, t) == LocalTime(zone, t) \div MsPerDay

-----------------------------------------------------------------------------
(* Deduplication and sorting *)

\* a plausible slip: the deduplicated list is never built and the combined
\* list is aggregated as it is
uniqueLogsMapValues_noDedupe(logs) == logs

\* the positions of logs whose entry adds a key to uniqueLogsMap: no earlier
\* entry has its id
insertedAt(logs) ==
  { i \in 1..Len(logs) : \A j \in 1..(i - 1) : logs[j].id # logs[i].id }

\* the k-th smallest element of a set of positions
nthOf(positions, k) ==
  CHOOSE i \in positions : Cardinality({ j \in positions : j <= i }) = k

\* a plausible slip: uniqueLogsMap.set without the has() test, so that a
\* later entry replaces the value stored under its id
uniqueLogsMapValues_keepLast(logs) ==
  LET keys == insertedAt(logs)
      lastOf(i) == Max({ j \in 1..Len(logs) : logs[j].id = logs[i].id })
  IN  [ k \in 1..Cardinality(keys) |-> logs[lastOf(nthOf(keys, k))] ]

\* a plausible slip: the kept entries are put in front of the list, so that
\* the list comes out newest insertion first
uniqueLogsMapValues_newestFirst(logs) ==
  LET keys == insertedAt(logs)
      n == Cardinality(keys)
  IN  [ k \in 1..n |-> logs[nthOf(keys, n + 1 - k)] ]

\* allLogs.forEach(log => { if (!uniqueLogsMap.has(log.id))
\* uniqueLogsMap.set(log.id, log) }); Array.from(uniqueLogsMap.values()):
\* a Map keeps its keys in insertion order, and the value of a key is the
\* entry that added it
uniqueLogsMapValues(logs) ==
  LET keys == insertedAt(logs)
  IN  [ k \in 1..Cardinality(keys) |-> logs[nthOf(keys, k)] ]

\* Array.prototype.sort with the comparator (a, b) => b.key - a.key: a
\* stable sort, largest key first
RECURSIVE stableSortDesc(_)
stableSortDesc(s) ==
  IF s = <<>> THEN <<>>
  ELSE LET best == Max({ s[i].key : i \in 1..Len(s) })
           at == Min({ i \in 1..Len(s) : s[i].key = best })
       IN  << s[at] >> \o
           stableSortDesc(SubSeq(s, 1, at - 1) \o SubSeq(s, at + 1, Len(s)))

\* deduplicatedLogs.sort((a, b) => b.timestamp - a.timestamp)
sortByTimestamp(logs) ==
  LET keyed == [ i \in 1..Len(logs) |->
                   [ key |-> logs[i].timestamp, val |-> logs[i] ] ]
      sorted == stableSortDesc(keyed)
  IN  [ i \in 1..Len(logs) |-> sorted[i].val ]

-----------------------------------------------------------------------------
(* Regular expressions of the forms the bazaar parser uses: a pattern is a *)
(* sequence of literals, lazy groups (.+?), greedy repetitions of a class  *)
(* of characters (captured or not) and the anchor $                        *)

Lit(text) == [ kind |-> "lit", text |-> text ]

LazyGroup == [ kind |-> "lazy" ]

ClassPlus(chars, capture) ==
  [ kind |-> "class", chars |-> chars, capture |-> capture ]

EndAnchor == [ kind |-> "end" ]

DigitChars == "0123456789"

NoMatch == [ ok |-> FALSE, caps |-> <<>> ]

\* the number of characters of s from pos on that belong to chars
RECURSIVE runLength(_, _, _)
runLength(s, pos, chars) ==
  IF pos > Len(s) \/ ~includes(chars, SubSeq(s, pos, pos)) THEN 0
  ELSE 1 + runLength(s, pos + 1, chars)

\* the backtracking match of the pattern toks against s from position pos:
\* a lazy group takes the fewest characters that let the rest match, a
\* greedy repetition the most
RECURSIVE matchFrom(_, _, _)
matchFrom(toks, s, pos) ==
  IF toks = <<>> THEN [ ok |-> TRUE, caps |-> <<>> ]
  ELSE
    LET t == Head(toks)
        rest == Tail(toks)
    IN  CASE t.kind = "lit" ->
               IF /\ pos + Len(t.text) - 1 <= Len(s)
                  /\ SubSeq(s, pos, pos + Len(t.text) - 1) = t.text
               THEN matchFrom(rest, s, pos + Len(t.text))
               ELSE NoMatch
          [] t.kind = "end" ->
               IF pos = Len(s) + 1 THEN matchFrom(rest, s, pos) ELSE NoMatch
          [] t.kind = "lazy" ->
               LET lens == { n \in 1..(Len(s) - pos + 1) :
                               matchFrom(rest, s, pos + n).ok }
               IN  IF lens = {} THEN NoMatch
                   ELSE LET n == Min(lens)
                        IN  [ ok |-> TRUE,
                              caps |-> << SubSeq(s, pos, pos + n - 1) >>
                                       \o matchFrom(rest, s, pos + n).caps ]
          [] t.kind = "class" ->
               LET lens == { n \in 1..runLength(s, pos, t.chars) :
                               matchFrom(rest, s, pos + n).ok }
               IN  IF lens = {} THEN NoMatch
                   ELSE LET n == Max(lens)
                            tail == matchFrom(rest, s, pos + n).caps
                        IN  [ ok |-> TRUE,
                              caps |-> IF t.capture
                                       THEN << SubSeq(s, pos, pos + n - 1) >>
                                            \o tail
                                       ELSE tail ]

\* s.match(pattern) of an unanchored pattern: the leftmost match
match(s, toks) ==
  LET starts == { p \in 1..(Len(s) + 1) : matchFrom(toks, s, p).ok }
  IN  IF starts = {} THEN NoMatch ELSE matchFrom(toks, s, Min(starts))

\* s.trim()
RECURSIVE trim(_)
trim(s) ==
  IF Len(s) = 0 THEN s
  ELSE IF SubSeq(s, 1, 1) = " " THEN trim(SubSeq(s, 2, Len(s)))
  ELSE IF SubSeq(s, Len(s), Len(s)) = " " THEN trim(SubSeq(s, 1, Len(s) - 1))
  ELSE s

\* parseInt(s, 10) of a string of digits
RECURSIVE parseInt(_)
parseInt(s) ==
  IF Len(s) = 0 THEN 0
  ELSE LET last == SubSeq(s, Len(s), Len(s))
           digit == (CHOOSE i \in 1..10 : SubSeq(DigitChars, i, i) = last) - 1
       IN  10 * parseInt(SubSeq(s, 1, Len(s) - 1)) + digit

-----------------------------------------------------------------------------
(* Item names and bazaar trades *)

\* a / b of two integers as the fraction it is; den = 0 stands for the
\* Infinity (or NaN) that JavaScript's division by zero gives
Rat(a, b) == [ num |-> a, den |-> b ]

\* obj?.f || d
valueOr(obj, f, d) == IF f \in DOMAIN obj /\ obj[f] # 0 THEN obj[f] ELSE d

\* this.itemMapping[itemId] is neither undefined nor ""
mapped(mapping, itemId) ==
  itemId \in DOMAIN mapping /\ mapping[itemId] # ""

\* what getItemName(itemId) returns
getItemName(mapping, itemId) ==
  IF ~mapped(mapping, itemId) THEN "Item #" \o ToString(itemId)
  ELSE mapping[itemId]

\* what getItemName(itemId) makes of this.unknownItemIds
getItemNameUnknown(mapping, unknown, itemId) ==
  IF ~mapped(mapping, itemId) THEN unknown \cup {itemId}
  ELSE unknown

\* a plausible slip: the quantity suffix is never split off
parseItemQuantity_nameOnly(itemPart) ==
  [ itemName |-> trim(itemPart), quantity |-> 1 ]

\* /(.+?)\s+x(\d+)$/
parseItemQuantity(itemPart) ==
  LET quantityMatch ==
        match(itemPart, << LazyGroup, ClassPlus(" ", FALSE), Lit("x"),
                           ClassPlus(DigitChars, TRUE), EndAnchor >>)
  IN  IF quantityMatch.ok
      THEN [ itemName |-> trim(quantityMatch.caps[1]),
             quantity |-> parseInt(quantityMatch.caps[2]) ]
      ELSE [ itemName |-> trim(itemPart), quantity |-> 1 ]

MoneyChars == "0123456789,"

\* /You bought (.+?) from (.+?) \[(\d+)\] for \$[\d,]+/
buyPattern ==
  << Lit("You bought "), LazyGroup, Lit(" from "), LazyGroup, Lit(" ["),
     ClassPlus(DigitChars, TRUE), Lit("] for $"),
     ClassPlus(MoneyChars, FALSE) >>

\* /You sold (.+?) to (.+?) \[(\d+)\] for \$[\d,]+/
sellPattern ==
  << Lit("You sold "), LazyGroup, Lit(" to "), LazyGroup, Lit(" ["),
     ClassPlus(DigitChars, TRUE), Lit("] for $"),
     ClassPlus(MoneyChars, FALSE) >>

\* /(.+?) \[(\d+)\] bought (.+?) for \$[\d,]+/
bazaarSalePattern ==
  << LazyGroup, Lit(" ["), ClassPlus(DigitChars, TRUE), Lit("] bought "),
     LazyGroup, Lit(" for $"), ClassPlus(MoneyChars, FALSE) >>

\* /(.+?) \[(\d+)\] bought (.+?) from your bazaar for \$[\d,]+/
bazaarFromPattern ==
  << LazyGroup, Lit(" ["), ClassPlus(DigitChars, TRUE), Lit("] bought "),
     LazyGroup, Lit(" from your bazaar for $"),
     ClassPlus(MoneyChars, FALSE) >>

\* playerId of a BazaarTransactionInfo that has none
NoPlayerId == ""

\* the BazaarTransactionInfo of the "bazaar sell" and "bazaar buy" branches;
\* partnerField is the data field that names the counterparty
structuredTrade(log, mapping, amount, partnerField, isSale) ==
  LET items == IF "items" \in DOMAIN log.data THEN log.data["items"] ELSE <<>>
      firstItem == IF Len(items) > 0 THEN items[1] ELSE <<>>
      itemId == valueOr(firstItem, "id", 0)
      partnerId == valueOr(log.data, partnerField, 0)
  IN  [ itemName |-> IF itemId # 0 THEN getItemName(mapping, itemId)
                     ELSE "Unknown Item",
        quantity |-> valueOr(firstItem, "qty", 1),
        unitPrice |-> Rat(valueOr(log.data, "cost_each", amount), 1),
        totalAmount |-> amount,
        tradingPartner |-> IF partnerId # 0
                           THEN "Player [" \o ToString(partnerId) \o "]"
                           ELSE "Unknown Player",
        playerId |-> NoPlayerId,
        isSale |-> isSale,
        timestamp |-> log.timestamp,
        originalTitle |-> log.title ]

\* the BazaarTransactionInfo of a free-text branch
freeTextTrade(log, amount, itemPart, playerName, playerId, isSale) ==
  LET parsed == parseItemQuantity(itemPart)
  IN  [ itemName |-> parsed.itemName,
        quantity |-> parsed.quantity,
        unitPrice |-> Rat(amount, parsed.quantity),
        totalAmount |-> amount,
        tradingPartner |-> playerName,
        playerId |-> playerId,
        isSale |-> isSale,
        timestamp |-> log.timestamp,
        originalTitle |-> log.title ]

\* a plausible slip: the "bazaar buy" branch, copied from the "bazaar sell"
\* branch, still reads data.buyer
structuredParse_buyer(log, mapping, amount) ==
  IF toLowerCase(log.title) = "bazaar sell"
  THEN << structuredTrade(log, mapping, amount, "buyer", TRUE) >>
  ELSE IF toLowerCase(log.title) = "bazaar buy"
  THEN << structuredTrade(log, mapping, amount, "buyer", FALSE) >>
  ELSE <<>>

\* the two branches of parseBazaarTransaction for the titles "Bazaar sell"
\* and "Bazaar buy": <<>> when the title is neither
structuredParse(log, mapping, amount) ==
  IF toLowerCase(log.title) = "bazaar sell"
  THEN << structuredTrade(log, mapping, amount, "buyer", TRUE) >>
  ELSE IF toLowerCase(log.title) = "bazaar buy"
  THEN << structuredTrade(log, mapping, amount, "seller", FALSE) >>
  ELSE <<>>

\* a plausible slip: a title no pattern matches is reported as a trade of
\* an unknown item instead of null
freeTextParse_fallback(log, amount) ==
  LET title == log.title
      buyMatch == match(title, buyPattern)
      sellMatch == match(title, sellPattern)
      bazaarSaleMatch == match(title, bazaarSalePattern)
      bazaarFromMatch == match(title, bazaarFromPattern)
  IN  IF buyMatch.ok
      THEN << freeTextTrade(log, amount, buyMatch.caps[1], buyMatch.caps[2],
                            buyMatch.caps[3], FALSE) >>
      ELSE IF sellMatch.ok
      THEN << freeTextTrade(log, amount, sellMatch.caps[1],
                            sellMatch.caps[2], sellMatch.caps[3], TRUE) >>
      ELSE IF bazaarSaleMatch.ok
      THEN << freeTextTrade(log, amount, bazaarSaleMatch.caps[3],
                            bazaarSaleMatch.caps[1], bazaarSaleMatch.caps[2],
                            TRUE) >>
      ELSE IF bazaarFromMatch.ok
      THEN << freeTextTrade(log, amount, bazaarFromMatch.caps[3],
                            bazaarFromMatch.caps[1], bazaarFromMatch.caps[2],
                            TRUE) >>
      ELSE << freeTextTrade(log, amount, "Unknown Item", "Unknown Player",
                            NoPlayerId, FALSE) >>

\* the four patterns of parseBazaarTransaction, tried in order, and the
\* final "return null"
freeTextParse(log, amount) ==
  LET title == log.title
      buyMatch == match(title, buyPattern)
      sellMatch == match(title, sellPattern)
      bazaarSaleMatch == match(title, bazaarSalePattern)
      bazaarFromMatch == match(title, bazaarFromPattern)
  IN  IF buyMatch.ok
      THEN << freeTextTrade(log, amount, buyMatch.caps[1], buyMatch.caps[2],
                            buyMatch.caps[3], FALSE) >>
      ELSE IF sellMatch.ok
      THEN << freeTextTrade(log, amount, sellMatch.caps[1],
                            sellMatch.caps[2], sellMatch.caps[3], TRUE) >>
      ELSE IF bazaarSaleMatch.ok
      THEN << freeTextTrade(log, amount, bazaarSaleMatch.caps[3],
                            bazaarSaleMatch.caps[1], bazaarSaleMatch.caps[2],
                            TRUE) >>
      ELSE IF bazaarFromMatch.ok
      THEN << freeTextTrade(log, amount, bazaarFromMatch.caps[3],
                            bazaarFromMatch.caps[1], bazaarFromMatch.caps[2],
                            TRUE) >>
      ELSE <<>>

\* a plausible slip: the test "amount === 0" is missing
parseBazaarTransaction_noZeroTest(log, mapping) ==
  LET amount == extractAmount(log)
      structured == structuredParse(log, mapping, amount)
  IN  IF structured # <<>> THEN structured
      ELSE freeTextParse(log, amount)

\* what parseBazaarTransaction(log) returns: <<>> for null, else the one
\* BazaarTransactionInfo
parseBazaarTransaction(log, mapping) ==
  LET amount == extractAmount(log)
      structured == structuredParse(log, mapping, amount)
  IN  IF amount = 0 THEN <<>>
      ELSE IF structured # <<>> THEN structured
      ELSE freeTextParse(log, amount)

\* the ids parseBazaarTransaction(log) hands to getItemName
parseBazaarTransactionIds(log) ==
  LET items == IF "items" \in DOMAIN log.data THEN log.data["items"] ELSE <<>>
      firstItem == IF Len(items) > 0 THEN items[1] ELSE <<>>
      itemId == valueOr(firstItem, "id", 0)
  IN  IF /\ extractAmount(log) # 0
         /\ toLowerCase(log.title) \in { "bazaar sell", "bazaar buy" }
         /\ itemId # 0
      THEN {itemId} ELSE {}

isBazaarTransaction(log) ==
  LET title == toLowerCase(log.title)
  IN  \/ includes(title, "bazaar sell")
      \/ includes(title, "bazaar buy")
      \/ /\ includes(title, "you bought")
         /\ includes(title, "from")
         /\ includes(title, "[")
         /\ includes(title, "]")
      \/ /\ includes(title, "you sold")
         /\ includes(title, "to")
         /\ includes(title, "[")
         /\ includes(title, "]")
      \/ /\ includes(title, "bought")
         /\ includes(title, "for $")
         /\ includes(title, "[")
         /\ includes(title, "]")
      \/ includes(title, "bought") /\ includes(title, "from your bazaar")

-----------------------------------------------------------------------------
(* calculateBazaarAnalytics *)

\* a - b, a / b and a * n of fractions
RatMinus(a, b) == Rat(a.num * b.den - b.num * a.den, a.den * b.den)

RatOver(a, b) == Rat(a.num * b.den, a.den * b.num)

RatTimes(a, n) == Rat(a.num * n, a.den)

\* the keys of a Map filled in the order of s: each key once, in the order
\* of its first entry
RECURSIVE keysInOrder(_)
keysInOrder(s) ==
  IF s = <<>> THEN <<>>
  ELSE LET init == keysInOrder(SubSeq(s, 1, Len(s) - 1))
           last == s[Len(s)]
       IN  IF last \in Range(init) THEN init ELSE Append(init, last)

EmptyBazaarAnalytics ==
  [ totalBazaarProfit |-> 0,
    totalBazaarVolume |-> 0,
    totalTransactions |-> 0,
    mostProfitableItem |-> "N/A",
    bestTradingPartner |-> "N/A",
    itemAnalytics |-> <<>>,
    tradingPartners |-> <<>>,
    bazaarTransactions |-> <<>> ]

\* the ItemAnalytics pushed for one entry of itemGroups
itemAnalyticsOf(itemName, transactions) ==
  LET purchases == SelectSeq(transactions, LAMBDA t : ~t.isSale)
      sales == SelectSeq(transactions, LAMBDA t : t.isSale)
      totalBought ==
        SumSeq([ i \in 1..Len(purchases) |-> purchases[i].totalAmount ])
      totalSold == SumSeq([ i \in 1..Len(sales) |-> sales[i].totalAmount ])
      totalQuantityBought ==
        SumSeq([ i \in 1..Len(purchases) |-> purchases[i].quantity ])
      totalQuantitySold ==
        SumSeq([ i \in 1..Len(sales) |-> sales[i].quantity ])
      avgBuyPrice == IF totalQuantityBought > 0
                     THEN Rat(totalBought, totalQuantityBought)
                     ELSE Rat(0, 1)
      avgSellPrice == IF totalQuantitySold > 0
                      THEN Rat(totalSold, totalQuantitySold)
                      ELSE Rat(0, 1)
  IN  [ itemName |-> itemName,
        totalBought |-> totalBought,
        totalSold |-> totalSold,
        totalQuantityBought |-> totalQuantityBought,
        totalQuantitySold |-> totalQuantitySold,
        avgBuyPrice |-> avgBuyPrice,
        avgSellPrice |-> avgSellPrice,
        profitMargin |->
          IF avgBuyPrice.num > 0
          THEN RatTimes(RatOver(RatMinus(avgSellPrice, avgBuyPrice),
                                avgBuyPrice), 100)
          ELSE Rat(0, 1),
        netProfit |-> totalSold - totalBought,
        transactionCount |-> Len(transactions),
        lastActivity |-> Max({ transactions[i].timestamp :
                                 i \in 1..Len(transactions) }) ]

\* a plausible slip: the item of the partner's first trade is taken as the
\* most traded one
partnerAnalyticsOf_firstItem(partnerName, transactions) ==
  [ partnerName |-> partnerName,
    playerId |-> transactions[1].playerId,
    totalTransactions |-> Len(transactions),
    totalVolume |->
      SumSeq([ i \in 1..Len(transactions) |-> transactions[i].totalAmount ]),
    mostTradedItem |-> transactions[1].itemName,
    lastTransaction |-> Max({ transactions[i].timestamp :
                                i \in 1..Len(transactions) }) ]

\* the TradingPartnerAnalytics pushed for one entry of partnerGroups
partnerAnalyticsOf(partnerName, transactions) ==
  LET itemNames == keysInOrder([ i \in 1..Len(transactions) |->
                                   transactions[i].itemName ])
      itemCounts ==
        [ k \in 1..Len(itemNames) |->
            [ key |-> Cardinality({ i \in 1..Len(transactions) :
                                      transactions[i].itemName = itemNames[k] }),
              val |-> itemNames[k] ] ]
      mostTradedItem == stableSortDesc(itemCounts)[1].val
  IN  [ partnerName |-> partnerName,
        playerId |-> transactions[1].playerId,
        totalTransactions |-> Len(transactions),
        totalVolume |->
          SumSeq([ i \in 1..Len(transactions) |->
                     transactions[i].totalAmount ]),
        mostTradedItem |-> IF mostTradedItem # "" THEN mostTradedItem
                           ELSE "N/A",
        lastTransaction |-> Max({ transactions[i].timestamp :
                                    i \in 1..Len(transactions) }) ]

calculateBazaarAnalytics(bazaarTransactions) ==
  IF Len(bazaarTransactions) = 0 THEN EmptyBazaarAnalytics
  ELSE
    LET itemKeys == keysInOrder([ i \in 1..Len(bazaarTransactions) |->
                                    bazaarTransactions[i].itemName ])
        itemGroup(key) ==
          SelectSeq(bazaarTransactions, LAMBDA t : t.itemName = key)
        pushedItems ==
          [ k \in 1..Len(itemKeys) |->
              itemAnalyticsOf(itemKeys[k], itemGroup(itemKeys[k])) ]
        itemAnalytics ==
          LET sorted == stableSortDesc(
                          [ k \in 1..Len(pushedItems) |->
                              [ key |-> pushedItems[k].netProfit,
                                val |-> pushedItems[k] ] ])
          IN  [ k \in 1..Len(pushedItems) |-> sorted[k].val ]
        partnerKeys == keysInOrder([ i \in 1..Len(bazaarTransactions) |->
                                       bazaarTransactions[i].tradingPartner ])
        partnerGroup(key) ==
          SelectSeq(bazaarTransactions, LAMBDA t : t.tradingPartner = key)
        pushedPartners ==
          [ k \in 1..Len(partnerKeys) |->
              partnerAnalyticsOf(partnerKeys[k], partnerGroup(partnerKeys[k])) ]
        tradingPartners ==
          LET sorted == stableSortDesc(
                          [ k \in 1..Len(pushedPartners) |->
                              [ key |-> pushedPartners[k].totalVolume,
                                val |-> pushedPartners[k] ] ])
          IN  [ k \in 1..Len(pushedPartners) |-> sorted[k].val ]
    IN  [ totalBazaarProfit |->
            SumSeq([ k \in 1..Len(pushedItems) |-> pushedItems[k].netProfit ]),
          totalBazaarVolume |->
            SumSeq([ k \in 1..Len(pushedItems) |->
                       pushedItems[k].totalBought + pushedItems[k].totalSold ]),
          totalTransactions |-> Len(bazaarTransactions),
          mostProfitableItem |->
            IF itemAnalytics[1].itemName # "" THEN itemAnalytics[1].itemName
            ELSE "N/A",
          bestTradingPartner |->
            IF tradingPartners[1].partnerName # ""
            THEN tradingPartners[1].partnerName ELSE "N/A",
          itemAnalytics |-> itemAnalytics,
          tradingPartners |-> tradingPartners,
          bazaarTransactions |-> bazaarTransactions ]

-----------------------------------------------------------------------------
(* displayBazaarAnalytics: the analytics of the days merged for the range. *)
(* A Map keyed by name is the sequence of its values in insertion order;   *)
(* the values are copies ({ ...item }) of the records of the days, so an   *)
(* update of a value leaves dailyProfits as it was.                        *)

\* a plausible slip: the averages and the margin of the partials are averaged
mergeItem_meanOfAverages(existing, item) ==
  [ existing EXCEPT
      !.totalBought = @ + item.totalBought,
      !.totalSold = @ + item.totalSold,
      !.totalQuantityBought = @ + item.totalQuantityBought,
      !.totalQuantitySold = @ + item.totalQuantitySold,
      !.netProfit = @ + item.netProfit,
      !.transactionCount = @ + item.transactionCount,
      !.lastActivity = Max({ @, item.lastActivity }),
      !.avgBuyPrice =
        Rat(@.num * item.avgBuyPrice.den + item.avgBuyPrice.num * @.den,
            2 * @.den * item.avgBuyPrice.den),
      !.avgSellPrice =
        Rat(@.num * item.avgSellPrice.den + item.avgSellPrice.num * @.den,
            2 * @.den * item.avgSellPrice.den),
      !.profitMargin =
        Rat(@.num * item.profitMargin.den + item.profitMargin.num * @.den,
            2 * @.den * item.profitMargin.den) ]

\* the value of allItemAnalytics for an item after a further day's record
mergeItem(existing, item) ==
  LET totalBought == existing.totalBought + item.totalBought
      totalSold == existing.totalSold + item.totalSold
      totalQuantityBought ==
        existing.totalQuantityBought + item.totalQuantityBought
      totalQuantitySold == existing.totalQuantitySold + item.totalQuantitySold
      avgBuyPrice == IF totalQuantityBought > 0
                     THEN Rat(totalBought, totalQuantityBought)
                     ELSE Rat(0, 1)
      avgSellPrice == IF totalQuantitySold > 0
                      THEN Rat(totalSold, totalQuantitySold)
                      ELSE Rat(0, 1)
  IN  [ itemName |-> existing.itemName,
        totalBought |-> totalBought,
        totalSold |-> totalSold,
        totalQuantityBought |-> totalQuantityBought,
        totalQuantitySold |-> totalQuantitySold,
        avgBuyPrice |-> avgBuyPrice,
        avgSellPrice |-> avgSellPrice,
        profitMargin |->
          IF avgBuyPrice.num > 0
          THEN RatTimes(RatOver(RatMinus(avgSellPrice, avgBuyPrice),
                                avgBuyPrice), 100)
          ELSE Rat(0, 1),
        netProfit |-> existing.netProfit + item.netProfit,
        transactionCount |-> existing.transactionCount + item.transactionCount,
        lastActivity |-> Max({ existing.lastActivity, item.lastActivity }) ]

\* the value of allPartnerAnalytics for a partner after a further day's
\* record
mergePartner(existing, partner) ==
  [ existing EXCEPT
      !.totalTransactions = @ + partner.totalTransactions,
      !.totalVolume = @ + partner.totalVolume,
      !.lastTransaction = Max({ @, partner.lastTransaction }) ]

\* allItemAnalytics after the forEach over the item records of one day
RECURSIVE mergeItems(_, _)
mergeItems(allItemAnalytics, items) ==
  IF items = <<>> THEN allItemAnalytics
  ELSE LET item == Head(items)
           has == { k \in 1..Len(allItemAnalytics) :
                      allItemAnalytics[k].itemName = item.itemName }
           next == IF has # {}
                   THEN [ allItemAnalytics EXCEPT
                            ![Min(has)] = mergeItem(@, item) ]
                   ELSE Append(allItemAnalytics, item)
       IN  mergeItems(next, Tail(items))

\* allPartnerAnalytics after the forEach over the partner records of one day
RECURSIVE mergePartners(_, _)
mergePartners(allPartnerAnalytics, partners) ==
  IF partners = <<>> THEN allPartnerAnalytics
  ELSE LET partner == Head(partners)
           has == { k \in 1..Len(allPartnerAnalytics) :
                      allPartnerAnalytics[k].partnerName = partner.partnerName }
           next == IF has # {}
                   THEN [ allPartnerAnalytics EXCEPT
                            ![Min(has)] = mergePartner(@, partner) ]
                   ELSE Append(allPartnerAnalytics, partner)
       IN  mergePartners(next, Tail(partners))

\* the accumulators of displayBazaarAnalytics after the first n days
RECURSIVE mergeDays(_, _)
mergeDays(profits, n) ==
  IF n = 0
  THEN [ allItemAnalytics |-> <<>>,
         allPartnerAnalytics |-> <<>>,
         totalBazaarProfit |-> 0,
         totalBazaarVolume |-> 0,
         totalBazaarTransactions |-> 0,
         dailyProfits |-> profits ]
  ELSE LET acc == mergeDays(profits, n - 1)
           day == acc.dailyProfits[n]
       IN  IF "bazaarAnalytics" \notin DOMAIN day THEN acc
           ELSE [ allItemAnalytics |->
                    mergeItems(acc.allItemAnalytics,
                               day.bazaarAnalytics.itemAnalytics),
                  allPartnerAnalytics |->
                    mergePartners(acc.allPartnerAnalytics,
                                  day.bazaarAnalytics.tradingPartners),
                  totalBazaarProfit |->
                    acc.totalBazaarProfit
                      + day.bazaarAnalytics.totalBazaarProfit,
                  totalBazaarVolume |->
                    acc.totalBazaarVolume
                      + day.bazaarAnalytics.totalBazaarVolume,
                  totalBazaarTransactions |->
                    acc.totalBazaarTransactions
                      + day.bazaarAnalytics.totalTransactions,
                  dailyProfits |-> acc.dailyProfits ]

\* what displayBazaarAnalytics shows, and dailyProfits as the call leaves it
displayBazaarAnalytics(profits) ==
  LET acc == mergeDays(profits, Len(profits))
      items == stableSortDesc(
                 [ k \in 1..Len(acc.allItemAnalytics) |->
                     [ key |-> acc.allItemAnalytics[k].netProfit,
                       val |-> acc.allItemAnalytics[k] ] ])
      partners == stableSortDesc(
                    [ k \in 1..Len(acc.allPartnerAnalytics) |->
                        [ key |-> acc.allPartnerAnalytics[k].totalVolume,
                          val |-> acc.allPartnerAnalytics[k] ] ])
  IN  [ noData |-> acc.totalBazaarTransactions = 0,
        totalBazaarProfit |-> acc.totalBazaarProfit,
        totalBazaarVolume |-> acc.totalBazaarVolume,
        totalBazaarTransactions |-> acc.totalBazaarTransactions,
        itemAnalytics |-> [ k \in 1..Len(items) |-> items[k].val ],
        partnerAnalytics |-> [ k \in 1..Len(partners) |-> partners[k].val ],
        dailyProfits |-> acc.dailyProfits ]

-----------------------------------------------------------------------------
(* processDailyProfits *)

\* the dateKey of loop round i of "Initialize days" and of the result loop
dayKey(zone, clock, i) == dateKey(setDateBack(zone, clock, i))

EmptyDay == [ income |-> 0, expenses |-> 0, transactions |-> <<>> ]

\* dailyData after the initialisation loop
initialDailyData(zone, clock, numDays) ==
  [ k \in { dayKey(zone, clock, i) : i \in 0..(numDays - 1) } |-> EmptyDay ]

\* dayData.transactions after one entry was tracked under transactionKey;
\* the Map is a sequence of its values in insertion order, each with its key
trackTransaction(transactions, transactionKey, log, amount, isIncome, isPiggyBankDeposit) ==
  LET known == { i \in 1..Len(transactions) :
                   transactions[i].key = transactionKey }
      withKey ==
        IF known = {}
        THEN Append(transactions,
                    [ key |-> transactionKey,
                      type |-> log.category,
                      title |-> log.title,
                      amount |-> 0,
                      count |-> 0,
                      isIncome |-> (~isPiggyBankDeposit) /\ isIncome,
                      isNeutral |-> isPiggyBankDeposit ])
        ELSE transactions
      at == Min({ i \in 1..Len(withKey) : withKey[i].key = transactionKey })
  IN  [ withKey EXCEPT ![at].amount = @ + amount, ![at].count = @ + 1 ]

\* one round of "for (const log of logs)"
processLog(dailyData, log) ==
  LET key == dateKey(log.timestamp * MsPerSecond)
  IN  IF key \notin DOMAIN dailyData THEN dailyData
      ELSE
        LET dayData == dailyData[key]
            amount == extractAmount(log)
            class == classify(log)
            isIncome == (class = "Income")
            isPiggyBankDeposit ==
              includes(toLowerCase(log.title), "piggy bank deposit")
            transactionType ==
              IF isPiggyBankDeposit THEN "neutral"
              ELSE IF isIncome THEN "income" ELSE "expense"
            transactionKey == log.title \o "-" \o transactionType
        IN  IF class = "Neutral" THEN dailyData
            ELSE IF amount > 0
            THEN [ dailyData EXCEPT ![key] =
                     [ income |->
                         IF (~isPiggyBankDeposit) /\ isIncome
                         THEN dayData.income + amount ELSE dayData.income,
                       expenses |->
                         IF (~isPiggyBankDeposit) /\ ~isIncome
                         THEN dayData.expenses + amount
                         ELSE dayData.expenses,
                       transactions |->
                         trackTransaction(dayData.transactions,
                                          transactionKey, log, amount,
                                          isIncome, isPiggyBankDeposit) ] ]
            ELSE dailyData

RECURSIVE processLogs(_, _)
processLogs(dailyData, logs) ==
  IF logs = <<>> THEN dailyData
  ELSE processLogs(processLog(dailyData, Head(logs)), Tail(logs))

\* Array.from(dayData.transactions.values()).sort((a, b) => b.amount -
\* a.amount)
sortedTransactions(transactions) ==
  LET keyed == [ i \in 1..Len(transactions) |->
                   [ key |-> transactions[i].amount,
                     val |-> [ type |-> transactions[i].type,
                               title |-> transactions[i].title,
                               amount |-> transactions[i].amount,
                               count |-> transactions[i].count,
                               isIncome |-> transactions[i].isIncome,
                               isNeutral |-> transactions[i].isNeutral ] ] ]
      sorted == stableSortDesc(keyed)
  IN  [ i \in 1..Len(transactions) |-> sorted[i].val ]

\* allBazaarTransactions after the loop over logs: the trades parsed from
\* the entries whose dateKey is one of dayKeys
RECURSIVE collectBazaarTransactions(_, _, _)
collectBazaarTransactions(logs, dayKeys, mapping) ==
  IF logs = <<>> THEN <<>>
  ELSE
    LET init == collectBazaarTransactions(SubSeq(logs, 1, Len(logs) - 1),
                                          dayKeys, mapping)
        log == logs[Len(logs)]
    IN  IF /\ dateKey(log.timestamp * MsPerSecond) \in dayKeys
           /\ isBazaarTransaction(log)
        THEN init \o parseBazaarTransaction(log, mapping)
        ELSE init

\* this.unknownItemIds after the loop over logs
RECURSIVE collectUnknownItemIds(_, _, _, _)
collectUnknownItemIds(logs, dayKeys, mapping, unknown) ==
  IF logs = <<>> THEN unknown
  ELSE
    LET log == Head(logs)
        ids == IF /\ dateKey(log.timestamp * MsPerSecond) \in dayKeys
                  /\ isBazaarTransaction(log)
               THEN parseBazaarTransactionIds(log) ELSE {}
        missed == { id \in ids : ~mapped(mapping, id) }
    IN  collectUnknownItemIds(Tail(logs), dayKeys, mapping,
                              unknown \cup missed)

\* the DailyProfit pushed in round i of the result loop
dailyProfitOf(dailyData, allBazaarTransactions, zone, clock, i) ==
  LET key == dayKey(zone, clock, i)
      dayData == dailyData[key]
      dayBazaarTransactions ==
        SelectSeq(allBazaarTransactions,
                  LAMBDA t : dateKey(t.timestamp * MsPerSecond) = key)
  IN  [ date |-> key,
        income |-> dayData.income,
        expenses |-> dayData.expenses,
        netProfit |-> dayData.income - dayData.expenses,
        transactions |-> sortedTransactions(dayData.transactions),
        bazaarAnalytics |-> calculateBazaarAnalytics(dayBazaarTransactions) ]

\* result.reverse(): round i = numDays - 1 comes first, round 0 last
processDailyProfits(logs, numDays, zone, clock, mapping) ==
  LET initial == initialDailyData(zone, clock, numDays)
      dailyData == processLogs(initial, logs)
      allBazaarTransactions ==
        collectBazaarTransactions(logs, DOMAIN initial, mapping)
  IN  [ j \in 1..numDays |->
          dailyProfitOf(dailyData, allBazaarTransactions, zone, clock,
                        numDays - j) ]

\* this.unknownItemIds when processDailyProfits returns
processDailyProfitsUnknown(logs, numDays, zone, clock, mapping, unknown) ==
  collectUnknownItemIds(logs, DOMAIN initialDailyData(zone, clock, numDays),
                        mapping, unknown)

-----------------------------------------------------------------------------
(* The item catalog and its cache in localStorage *)

ITEM_CATEGORIES ==
  << "Alcohol", "Armor", "Artifact", "Book", "Booster", "Candy", "Car",
     "Clothing", "Collectible", "Defensive", "Drug", "Energy Drink",
     "Enhancer", "Flower", "Jewelry", "Material", "Medical", "Melee",
     "Other", "Plushie", "Primary", "Secondary", "Special", "Supply Pack",
     "Temporary", "Tool", "Unused", "Weapon" >>

\* expiry of the cached catalog: 24 * 60 * 60 * 1000
ItemCacheMs == 24 * 60 * 60 * 1000

\* localStorage holds nothing under the key of the item cache
NoCache == [ stored |-> FALSE ]

\* what setCache('torn_items_cache', cache, expirationMs) stores at `clock`
setCache(items, clock, expirationMs) ==
  [ stored |-> TRUE,
    data |-> [ items |-> items, lastUpdated |-> clock,
               expiresAt |-> clock + ItemCacheMs ],
    timestamp |-> clock,
    expiration |-> expirationMs ]

\* Date.now() - cacheData.timestamp > cacheData.expiration
isExpired(cache, clock) == clock - cache.timestamp > cache.expiration

\* what getCache returns: <<>> for null, else the one ItemCache
getCache(cache, clock) ==
  IF ~cache.stored THEN <<>>
  ELSE IF isExpired(cache, clock) THEN <<>>
  ELSE << cache.data >>

\* localStorage after getCache, which removes an entry it finds expired
getCacheStorage(cache, clock) ==
  IF cache.stored /\ isExpired(cache, clock) THEN NoCache ELSE cache

\* a plausible slip: the cached catalog is used whatever its expiresAt says
cacheHit_anyAge(cache, clock) == getCache(cache, clock) # <<>>

\* cached && cached.expiresAt > Date.now()
cacheHit(cache, clock) ==
  /\ getCache(cache, clock) # <<>>
  /\ getCache(cache, clock)[1].expiresAt > clock

\* newMapping after the requests for the categories i..: each answer of
\* the catalog that is not a failure sets newMapping[item.id] = item.name
RECURSIVE fetchedMapping(_, _, _)
fetchedMapping(server, newMapping, i) ==
  IF i > Len(ITEM_CATEGORIES) THEN newMapping
  ELSE
    LET response == server[ITEM_CATEGORIES[i]]
        ids == { response.items[k].id : k \in 1..Len(response.items) }
        nameOf(id) ==
          response.items[Max({ k \in 1..Len(response.items) :
                                 response.items[k].id = id })].name
    IN  fetchedMapping(server,
          IF response.failed THEN newMapping
          ELSE [ id \in DOMAIN newMapping \cup ids |->
                   IF id \in ids THEN nameOf(id) ELSE newMapping[id] ],
          i + 1)

\* an item mapping without entries
NoItems == <<>>

-----------------------------------------------------------------------------
(* TornExchangeAPI: respectRateLimit and makeRequest.  Every public method *)
(* (getBestListing, getListings, getHighestPrice, getTEPrice, getStatus)   *)
(* is one call of makeRequest; a call runs up to its first await when it   *)
(* is made, and the caller may make further calls before it goes on.       *)

\* requestDelay: 6 seconds between requests
requestDelay == 6000

Calls == 1..MaxCalls

\* the clock of the model advances in thirds of requestDelay
TickMs == requestDelay \div 3

\* Date.now() when the TornExchangeAPI is constructed: later than
\* requestDelay after the epoch
ExchangeStart == 2 * requestDelay

NoCall == [ pc |-> "none", wakeAt |-> 0 ]

\* a TornExchangeAPI just constructed, none of its methods called yet
ExchangeIdle ==
  /\ lastRequestTime = 0
  /\ calls = [ k \in Calls |-> NoCall ]
  /\ requestTimes = <<>>

\* the delay respectRateLimit awaits: 0 when it sets no timer
respectRateLimitDelay(dateNow, last) ==
  LET timeSinceLastRequest == dateNow - last
  IN  IF timeSinceLastRequest < requestDelay
      THEN requestDelay - timeSinceLastRequest
      ELSE 0

\* a method is called: makeRequest runs respectRateLimit up to its await of
\* the timer, or to its end when no delay is due
MakeRequest(k) ==
  /\ calls[k].pc = "none"
  /\ LET delay == respectRateLimitDelay(clockMs, lastRequestTime)
     IN  IF clockMs - lastRequestTime < requestDelay
         THEN /\ calls' = [ calls EXCEPT ![k] =
                              [ pc |-> "delayed", wakeAt |-> clockMs + delay ] ]
              /\ UNCHANGED lastRequestTime
         ELSE /\ calls' = [ calls EXCEPT ![k].pc = "limited" ]
              /\ lastRequestTime' = clockMs
  /\ UNCHANGED << probe, probeOut, runVars, requestTimes >>

\* the timer of setTimeout fires, not before the delay has passed:
\* respectRateLimit stores Date.now() and returns
TimerFires(k) ==
  /\ calls[k].pc = "delayed"
  /\ clockMs >= calls[k].wakeAt
  /\ lastRequestTime' = clockMs
  /\ calls' = [ calls EXCEPT ![k].pc = "limited" ]
  /\ UNCHANGED << probe, probeOut, runVars, requestTimes >>

\* makeRequest goes on past `await this.respectRateLimit()`: fetch(url)
SendRequest(k) ==
  /\ calls[k].pc = "limited"
  /\ requestTimes' = Append(requestTimes, clockMs)
  /\ calls' = [ calls EXCEPT ![k].pc = "fetching" ]
  /\ UNCHANGED << probe, probeOut, runVars, lastRequestTime >>

\* the response or an error arrives and the method returns
RequestReturns(k) ==
  /\ calls[k].pc = "fetching"
  /\ calls' = [ calls EXCEPT ![k].pc = "returned" ]
  /\ UNCHANGED << probe, probeOut, runVars, lastRequestTime, requestTimes >>

\* time passes; a makeRequest that is past respectRateLimit goes on in a
\* microtask, before the clock advances
ExchangeTick ==
  /\ clockMs < ExchangeStart + MaxTicks * TickMs
  /\ \A k \in Calls : calls[k].pc # "limited"
  /\ clockMs' = clockMs + TickMs
  /\ UNCHANGED << probe, probeOut, tz, pc, days, now, fromTimestamp,
                  serverLog, fetch, resultVars, itemVars, api, ui, hasApi,
                  runsLeft, exchangeVars >>

NextExchange ==
  \/ \E k \in Calls : MakeRequest(k)
  \/ \E k \in Calls : TimerFires(k)
  \/ \E k \in Calls : SendRequest(k)
  \/ \E k \in Calls : RequestReturns(k)
  \/ ExchangeTick

-----------------------------------------------------------------------------
(* The page of the profit logger: the sections that carry the class        *)
(* `hidden` and the disabled flag of the analyze button                    *)

\* the page as it is loaded: only the controls are shown
InitialUi ==
  [ analyzeDisabled |-> FALSE, progressHidden |-> TRUE,
    resultsHidden |-> TRUE, errorHidden |-> TRUE, statusHidden |-> TRUE ]

\* a plausible slip: the progress is shown but the button stays enabled
showProgress_noDisable(u) == [ u EXCEPT !.progressHidden = FALSE ]

showProgress(u) ==
  [ u EXCEPT !.progressHidden = FALSE, !.analyzeDisabled = TRUE ]

hideProgress(u) ==
  [ u EXCEPT !.progressHidden = TRUE, !.analyzeDisabled = FALSE ]

showResults(u) == [ u EXCEPT !.resultsHidden = FALSE ]

hideResults(u) == [ u EXCEPT !.resultsHidden = TRUE ]

showError(u) == [ u EXCEPT !.errorHidden = FALSE ]

hideError(u) == [ u EXCEPT !.errorHidden = TRUE ]

hideStatusIndicator(u) == [ u EXCEPT !.statusHidden = TRUE ]

updateStatusIndicator(u) == [ u EXCEPT !.statusHidden = FALSE ]

Buttons == { "analyzeBtn", "retryBtn" }

\* a button can be clicked if it is enabled and its section is shown: the
\* retry button is part of the error section
Clickable(button) ==
  IF button = "analyzeBtn" THEN ~ui.analyzeDisabled ELSE ~ui.errorHidden

\* startAnalysis up to the call of analyzeProfitForDays
startedUi ==
  showProgress(hideStatusIndicator(hideResults(hideError(ui))))

-----------------------------------------------------------------------------
(* State of a ProfitLogger with no analysis running *)

Categories == {13, 14, 17}

NoEntry == LogEntry("", 0, "", "", "none", <<>>)

NoOutput == [ op |-> "none" ]

IdleFetch ==
  [ c \in Categories |->
      [ status |-> "idle", allLogs |-> <<>>, currentTo |-> 0,
        hasMore |-> FALSE, batchCount |-> 0 ] ]

\* a log API that answers with any page of serverLog that respects from, to
\* and sort=desc, with or without a prev link, or fails
AnyApi == [ c \in Categories |-> [ kind |-> "any" ] ]

AnalysisIdle ==
  /\ clockMs = 0
  /\ tz = UTCZone
  /\ pc = "idle"
  /\ days = 0
  /\ now = 0
  /\ fromTimestamp = 0
  /\ serverLog = {}
  /\ fetch = IdleFetch
  /\ categoryLogs = [ c \in Categories |-> <<>> ]
  /\ allLogs = <<>>
  /\ uniqueLogs = <<>>
  /\ deduplicatedLogs = <<>>
  /\ dailyProfits = <<>>

RunIdle ==
  /\ AnalysisIdle
  /\ itemMapping = NoItems
  /\ unknownItemIds = {}
  /\ itemCache = NoCache
  /\ itemRequests = 0
  /\ catalogServer = [ c \in Range(ITEM_CATEGORIES) |->
                         [ failed |-> TRUE, items |-> <<>> ] ]
  /\ api = AnyApi
  /\ ui = InitialUi
  /\ hasApi = TRUE
  /\ runsLeft = 0

-----------------------------------------------------------------------------
(* extractAmount on its own *)

AmountFields ==
  { "cost_total", "money_gained", "money_mugged", "bet_amount", "bet",
    "withdrawn", "cost", "money", "won_amount", "pot", "credits", "pay",
    "rent", "upkeep_paid", "donated", "bounty_reward", "deposited", "amount",
    "fee", "value" }

\* cost_each is a number field of bazaar entries that extractAmount does not
\* read
DataFields == AmountFields \cup { "cost_each" }

AmountValues == { -100, 0, 50, 100 }

ExtractProbes ==
  UNION { { LogEntry("1", 0, "Bazaar sell", "Bazaar", "green", d) :
              d \in [S -> AmountValues] } :
          S \in SubsetsUpTo(DataFields, MaxFields) }

InitExtract ==
  /\ probe \in ExtractProbes
  /\ probeOut = NoOutput
  /\ ExchangeIdle
  /\ RunIdle

ExtractCall ==
  /\ probeOut.op = "none"
  /\ probeOut' = [ op |-> "extractAmount", amount |-> extractAmount(probe) ]
  /\ UNCHANGED << exchangeVars, probe, runVars >>

SpecExtract == InitExtract /\ [][ExtractCall]_vars

-----------------------------------------------------------------------------
(* The classifier on its own *)

ClassifyTitles ==
  { "Bazaar sell", "Bazaar buy", "Item market sell", "Item market buy",
    "Item shop purchase", "Ammo buy", "Lottery bet", "Casino slots join",
    "Casino keno start", "Casino slots lose", "Casino slots win",
    "Spin the wheel start", "High-low start", "Russian roulette join",
    "Russian roulette start", "Blackjack start", "Bookie bet",
    "Bookie withdraw", "Bank deposit", "Bank deposit interest",
    "Bank withdraw", "Bank withdraw fee", "Bank invest",
    "Piggy bank deposit", "Piggy bank withdraw", "PIGGY BANK DEPOSIT",
    "Trade money add", "Trade money remove", "Trade money outgoing",
    "Faction money balance change", "Money send", "Money receive",
    "Money incoming", "Mug receive", "Mug", "Property upkeep",
    "Property upkeep pay", "Church donate", "Bounty place", "Bounty claim",
    "Education start", "Property upgrade", "Property rent owner",
    "Property rent", "Mission complete", "Company pay", "Chips cash in",
    "Stock profit", "Points gain", "Garage sale", "Vault transfer",
    "Crime" }

ClassifyCategories ==
  { "Money incoming", "Money outgoing", "Missions", "Casino" }

Colors == { "green", "red", "none" }

ClassifyProbes ==
  { LogEntry("1", 0, t, c, col, [ amount |-> 100 ]) :
      t \in ClassifyTitles, c \in ClassifyCategories, col \in Colors }

InitClassify ==
  /\ probe \in ClassifyProbes
  /\ probeOut = NoOutput
  /\ ExchangeIdle
  /\ RunIdle

ClassifyCall ==
  /\ probeOut.op = "none"
  /\ probeOut' = [ op |-> "classify", class |-> classify(probe) ]
  /\ UNCHANGED << exchangeVars, probe, runVars >>

SpecClassify == InitClassify /\ [][ClassifyCall]_vars

-----------------------------------------------------------------------------
(* analyzeProfitForDays: the three fetchLogs calls and the aggregation *)

maxBatches == 50

\* the log API honours from, to and sort=desc: a page holds entries of the
\* window, newest first
IsPage(page, from, to) ==
  /\ \A i \in 1..Len(page) :
       page[i].timestamp >= from /\ page[i].timestamp <= to
  /\ \A i \in 1..(Len(page) - 1) : page[i].timestamp >= page[i + 1].timestamp

\* entries fetched so far by the three calls together
Fetched == SumSeq([ i \in 1..3 |->
                      Len(fetch[CHOOSE c \in Categories :
                            Cardinality({ d \in Categories : d < c }) = i - 1
                          ].allLogs) ])

\* a plausible slip: the next request asks again for the second of the
\* oldest entry
fetchRound_sameSecond(f, from, response) ==
  LET batchCount == f.batchCount + 1
  IN  IF response.failed
      THEN [ f EXCEPT !.batchCount = batchCount, !.hasMore = FALSE ]
      ELSE IF Len(response.log) = 0
      THEN [ f EXCEPT !.batchCount = batchCount, !.hasMore = FALSE ]
      ELSE
        LET filteredLogs ==
              IF from # 0
              THEN SelectSeq(response.log, LAMBDA l : l.timestamp >= from)
              ELSE response.log
            oldestLog == response.log[Len(response.log)]
            hasMore == ~(from # 0 /\ oldestLog.timestamp <= from)
                       /\ response.prev
        IN  [ f EXCEPT !.batchCount = batchCount,
                       !.allLogs = f.allLogs \o filteredLogs,
                       !.hasMore = hasMore,
                       !.currentTo = IF hasMore THEN oldestLog.timestamp
                                     ELSE f.currentTo ]

\* a plausible slip: the catch block leaves hasMore as it is, and the
\* request is sent again
fetchRound_retry(f, from, response) ==
  LET batchCount == f.batchCount + 1
  IN  IF response.failed
      THEN [ f EXCEPT !.batchCount = batchCount ]
      ELSE IF Len(response.log) = 0
      THEN [ f EXCEPT !.batchCount = batchCount, !.hasMore = FALSE ]
      ELSE
        LET filteredLogs ==
              IF from # 0
              THEN SelectSeq(response.log, LAMBDA l : l.timestamp >= from)
              ELSE response.log
            oldestLog == response.log[Len(response.log)]
            hasMore == ~(from # 0 /\ oldestLog.timestamp <= from)
                       /\ response.prev
        IN  [ f EXCEPT !.batchCount = batchCount,
                       !.allLogs = f.allLogs \o filteredLogs,
                       !.hasMore = hasMore,
                       !.currentTo = IF hasMore THEN oldestLog.timestamp - 1
                                     ELSE f.currentTo ]

\* the locals of fetchLogs after one round of its while loop that got
\* `response` ([failed |-> TRUE] when api.request threw)
fetchRound(f, from, response) ==
  LET batchCount == f.batchCount + 1
  IN  IF response.failed
      THEN [ f EXCEPT !.batchCount = batchCount, !.hasMore = FALSE ]
      ELSE IF Len(response.log) = 0
      THEN [ f EXCEPT !.batchCount = batchCount, !.hasMore = FALSE ]
      ELSE
        LET filteredLogs ==
              IF from # 0
              THEN SelectSeq(response.log, LAMBDA l : l.timestamp >= from)
              ELSE response.log
            oldestLog == response.log[Len(response.log)]
            hasMore == ~(from # 0 /\ oldestLog.timestamp <= from)
                       /\ response.prev
        IN  [ f EXCEPT !.batchCount = batchCount,
                       !.allLogs = f.allLogs \o filteredLogs,
                       !.hasMore = hasMore,
                       !.currentTo = IF hasMore THEN oldestLog.timestamp - 1
                                     ELSE f.currentTo ]

\* the while condition decides whether the call goes round again or
\* returns allLogs, which ends the life of its other locals
afterRound(f) ==
  IF f.hasMore /\ f.batchCount < maxBatches THEN f
  ELSE [ status |-> "done", allLogs |-> f.allLogs, currentTo |-> 0,
         hasMore |-> FALSE, batchCount |-> 0 ]

DaysChoices == 1..MaxDays

\* a plausible slip: this.unknownItemIds.clear() is missing
startFetching_noClear(d, clock) ==
  /\ UNCHANGED unknownItemIds
  /\ days' = d
  /\ now' = clock \div MsPerSecond
  /\ fromTimestamp' = now' - d * 24 * 60 * 60
  /\ fetch' = [ c \in Categories |->
                  [ status |-> "running", allLogs |-> <<>>,
                    currentTo |-> now', hasMore |-> TRUE,
                    batchCount |-> 0 ] ]
  /\ pc' = "fetching"

\* analyzeProfitForDays from "Clear unknown item IDs" to Promise.all: the
\* window is computed at the instant `clock` and the three fetchLogs calls
\* are started
startFetching(d, clock) ==
  /\ unknownItemIds' = {}
  /\ days' = d
  /\ now' = clock \div MsPerSecond
  /\ fromTimestamp' = now' - d * 24 * 60 * 60
  /\ fetch' = [ c \in Categories |->
                  [ status |-> "running", allLogs |-> <<>>,
                    currentTo |-> now', hasMore |-> TRUE,
                    batchCount |-> 0 ] ]
  /\ pc' = "fetching"

\* the locals of a call of analyzeProfitForDays that has not reached them
freshLocals ==
  /\ categoryLogs' = [ c \in Categories |-> <<>> ]
  /\ allLogs' = <<>>
  /\ uniqueLogs' = <<>>
  /\ deduplicatedLogs' = <<>>
  /\ dailyProfits' = <<>>

\* the time that passes before the user starts an analysis: none, or a
\* day since the analysis before
Waits == { 0, MsPerDay }

\* a click on the analyze or the retry button `wait` after the last step
\* calls startAnalysis, which shows the progress and, with no API key,
\* catches the error of analyzeProfitForDays(d) at once; else
\* loadItemMapping reads the cache and, if it holds a catalog that has not
\* expired, the run goes on to the fetchLogs calls, or it waits for
\* fetchAndCacheItems.  A click while a run is in progress would start a
\* second run over the same ProfitLogger, which pc cannot express.
StartAnalysis(d, wait) ==
  /\ pc \in { "idle", "done" }
  /\ \E button \in Buttons : Clickable(button)
  /\ wait # 0 => pc = "done"
  /\ runsLeft > 0
  /\ runsLeft' = runsLeft - 1
  /\ clockMs' = clockMs + wait
  /\ IF hasApi
     THEN /\ ui' = startedUi
          /\ itemCache' = getCacheStorage(itemCache, clockMs')
          /\ itemRequests' = 0
          /\ freshLocals
          /\ IF cacheHit(itemCache, clockMs')
             THEN /\ itemMapping' = getCache(itemCache, clockMs')[1].items
                  /\ startFetching(d, clockMs')
             ELSE /\ pc' = "loadingItems"
                  /\ days' = d
                  /\ now' = 0
                  /\ fromTimestamp' = 0
                  /\ UNCHANGED << itemMapping, unknownItemIds, fetch >>
     ELSE /\ ui' = showError(hideProgress(startedUi))
          /\ UNCHANGED << pc, days, now, fromTimestamp, fetch, resultVars,
                          itemMapping, unknownItemIds, itemCache,
                          itemRequests >>
  /\ UNCHANGED << exchangeVars, probe, probeOut, tz, serverLog, catalogServer, api,
                  hasApi >>

\* fetchAndCacheItems: one request per item category, the mapping is
\* replaced and cached, and the run goes on to the fetchLogs calls
FetchAndCacheItems ==
  /\ pc = "loadingItems"
  /\ itemMapping' = fetchedMapping(catalogServer, NoItems, 1)
  /\ itemCache' = setCache(itemMapping', clockMs, ItemCacheMs)
  /\ itemRequests' = Len(ITEM_CATEGORIES)
  /\ startFetching(days, clockMs)
  /\ UNCHANGED << exchangeVars, probe, probeOut, clockMs, tz, serverLog, catalogServer,
                  resultVars, api, ui, hasApi, runsLeft >>

\* the answer of a log API that keeps `log`, newest first, and sends at most
\* `limit` entries a page, with a prev link while older entries are left
pagedResponse(log, limit, from, to) ==
  LET window == SelectSeq(log, LAMBDA l : l.timestamp >= from
                                           /\ l.timestamp <= to)
  IN  [ failed |-> FALSE,
        log |-> SubSeq(window, 1, Min({ limit, Len(window) })),
        prev |-> Len(window) > limit ]

\* what api.request can return for the next request of fetchLogs(c, ...):
\* a "paged" API answers from its log, a "stubborn" one sends the same page
\* with a prev link whatever the request asks for
Responses(c) ==
  IF api[c].kind = "paged"
  THEN { pagedResponse(api[c].log, api[c].limit, fromTimestamp,
                       fetch[c].currentTo) }
  ELSE IF api[c].kind = "stubborn"
  THEN { [ failed |-> FALSE, log |-> api[c].page, prev |-> TRUE ] }
  ELSE { [ failed |-> FALSE, log |-> page, prev |-> prev ] :
           page \in { q \in SeqsUpTo(serverLog, MaxLogs - Fetched) :
                        IsPage(q, fromTimestamp, fetch[c].currentTo) },
           prev \in BOOLEAN }

\* whether api.request can throw for the next request of fetchLogs(c, ...):
\* at any request of an "any" API, else at request number failAt
Fails(c) ==
  \/ api[c].kind = "any"
  \/ api[c].kind # "any" /\ api[c].failAt = fetch[c].batchCount + 1

\* a plausible slip: currentTo is shared by the three calls instead of
\* being a local of each, so a request asks for what is older than the
\* oldest entry any call has seen
FetchPage_sharedCursor(c) ==
  /\ pc = "fetching"
  /\ fetch[c].status = "running"
  /\ api[c].kind # "any" => ~Fails(c)
  /\ LET shared == Min({ fetch[d].currentTo :
                           d \in { e \in Categories :
                                     fetch[e].status = "running" } })
     IN  fetch' = [ fetch EXCEPT ![c] =
                      afterRound(fetchRound(
                        [ fetch[c] EXCEPT !.currentTo = shared ],
                        fromTimestamp,
                        IF api[c].kind = "stubborn"
                        THEN [ failed |-> FALSE, log |-> api[c].page,
                               prev |-> TRUE ]
                        ELSE pagedResponse(api[c].log, api[c].limit,
                                           fromTimestamp, shared))) ]
  /\ UNCHANGED << exchangeVars, probe, probeOut, clockMs, tz, pc, days, now, fromTimestamp,
                  serverLog, resultVars, itemVars, api, ui, hasApi,
                  runsLeft >>

\* one round of the while loop of fetchLogs(c, ...) whose request succeeded
FetchPage(c) ==
  /\ pc = "fetching"
  /\ fetch[c].status = "running"
  /\ api[c].kind # "any" => ~Fails(c)
  /\ \E response \in Responses(c) :
       fetch' = [ fetch EXCEPT ![c] =
                    afterRound(fetchRound(fetch[c], fromTimestamp, response)) ]
  /\ UNCHANGED << exchangeVars, probe, probeOut, clockMs, tz, pc, days, now, fromTimestamp,
                  serverLog, resultVars, itemVars, api, ui, hasApi,
                  runsLeft >>

\* one round of the while loop of fetchLogs(c, ...) whose request threw
FetchPageError(c) ==
  /\ pc = "fetching"
  /\ fetch[c].status = "running"
  /\ Fails(c)
  /\ fetch' = [ fetch EXCEPT ![c] =
                  afterRound(fetchRound(fetch[c], fromTimestamp,
                                        [ failed |-> TRUE ])) ]
  /\ UNCHANGED << exchangeVars, probe, probeOut, clockMs, tz, pc, days, now, fromTimestamp,
                  serverLog, resultVars, itemVars, api, ui, hasApi,
                  runsLeft >>

\* Promise.all resolves: the three fetchLogs calls have returned
AllFetched ==
  /\ pc = "fetching"
  /\ \A c \in Categories : fetch[c].status = "done"

\* analyzeProfitForDays after Promise.all: combine, deduplicate, sort,
\* processDailyProfits, return
Aggregate ==
  /\ AllFetched
  /\ ui' = showResults(updateStatusIndicator(hideProgress(ui)))
  /\ categoryLogs' = [ c \in Categories |-> fetch[c].allLogs ]
  /\ allLogs' = categoryLogs'[13] \o categoryLogs'[14] \o categoryLogs'[17]
  /\ uniqueLogs' = uniqueLogsMapValues(allLogs')
  /\ deduplicatedLogs' = sortByTimestamp(uniqueLogs')
  /\ dailyProfits' = processDailyProfits(deduplicatedLogs', days, tz, clockMs,
                                         itemMapping)
  /\ unknownItemIds' = processDailyProfitsUnknown(deduplicatedLogs', days, tz,
                                                  clockMs, itemMapping,
                                                  unknownItemIds)
  /\ fetch' = IdleFetch
  /\ pc' = "done"
  /\ UNCHANGED << exchangeVars, probe, probeOut, clockMs, tz, days, now, fromTimestamp,
                  serverLog, itemMapping, itemCache, itemRequests,
                  catalogServer, api, hasApi, runsLeft >>

Next ==
  \/ \E d \in DaysChoices, wait \in Waits : StartAnalysis(d, wait)
  \/ FetchAndCacheItems
  \/ \E c \in Categories : FetchPage(c)
  \/ \E c \in Categories : FetchPageError(c)
  \/ Aggregate

-----------------------------------------------------------------------------
(* The runs checked: a browser in Prague around the switch to summer time  *)
(* or on UTC, and a log of bazaar sales and purchases, lottery bets and    *)
(* piggy bank deposits                                                     *)

\* Europe/Prague: UTC+1 until 01:00 UTC of Today, UTC+2 from then on
PragueZone ==
  [ before |-> MsPerHour, after |-> 2 * MsPerHour,
    switchAt |-> DayStartMs(Today) + MsPerHour ]

Zones == { UTCZone, PragueZone }

\* 12:00 and 23:30 UTC of Today
Clocks == { DayStartMs(Today) + 12 * MsPerHour,
            DayStartMs(Today) + 23 * MsPerHour + 30 * 60 * MsPerSecond }

\* the items API: Xanax is a drug, Bottle of Beer an alcohol, and the
\* requests for the categories in `failing` throw
Catalog(failing) ==
  [ c \in Range(ITEM_CATEGORIES) |->
      IF c \in failing THEN [ failed |-> TRUE, items |-> <<>> ]
      ELSE [ failed |-> FALSE,
             items |-> IF c = "Drug"
                       THEN << [ id |-> 206, name |-> "Xanax" ] >>
                       ELSE IF c = "Alcohol"
                       THEN << [ id |-> 180, name |-> "Bottle of Beer" ] >>
                       ELSE <<>> ] ]

FullMapping == fetchedMapping(Catalog({}), NoItems, 1)

\* the catalog as it was before Bottle of Beer came into the game
OldMapping == fetchedMapping(Catalog({"Alcohol"}), NoItems, 1)

\* a cache written an hour ago, one written 24 hours ago, whose expiresAt
\* is this instant, and one written two days ago
FreshCache(clock) == setCache(FullMapping, clock - MsPerHour, ItemCacheMs)

ExpiredCache(clock) == setCache(OldMapping, clock - MsPerDay, ItemCacheMs)

LongExpiredCache(clock) ==
  setCache(OldMapping, clock - 2 * MsPerDay, ItemCacheMs)

\* the entries of the log: 10:00:00 UTC of Today, and 23:00:00 UTC of the
\* day before, which is 00:00:00 of Today in Prague
SaleKind ==
  [ title |-> "Bazaar sell", category |-> "Bazaar", color |-> "green",
    data |-> [ cost_total |-> 5000 ] ]

\* the same sale as the general money log shows it
SaleKindGeneral ==
  [ title |-> "Bazaar sell", category |-> "Money", color |-> "none",
    data |-> [ cost_total |-> 5000 ] ]

PurchaseKind ==
  [ title |-> "Bazaar buy", category |-> "Bazaar", color |-> "red",
    data |-> [ cost_total |-> 5000 ] ]

BetKind ==
  [ title |-> "Lottery bet", category |-> "Casino", color |-> "red",
    data |-> [ cost |-> 1000 ] ]

PiggyKind ==
  [ title |-> "Piggy bank deposit", category |-> "Bank", color |-> "green",
    data |-> [ deposited |-> 2000 ] ]

Entry(id, t, k) == LogEntry(id, t, k.title, k.category, k.color, k.data)

NoonStamp == Today * SecondsPerDay + 10 * 60 * 60

MidnightStamp == Today * SecondsPerDay - 60 * 60

LedgerEntries ==
  { Entry("101", NoonStamp, SaleKind),
    Entry("101", NoonStamp, SaleKindGeneral),
    Entry("102", NoonStamp, BetKind),
    Entry("103", NoonStamp, PurchaseKind),
    Entry("104", MidnightStamp, PiggyKind),
    Entry("105", MidnightStamp, SaleKind) }

Init ==
  /\ probe = NoEntry
  /\ probeOut = NoOutput
  /\ ExchangeIdle
  /\ clockMs \in Clocks
  /\ tz \in Zones
  /\ pc = "idle"
  /\ days = 0
  /\ now = 0
  /\ fromTimestamp = 0
  /\ serverLog = LedgerEntries
  /\ fetch = IdleFetch
  /\ categoryLogs = [ c \in Categories |-> <<>> ]
  /\ allLogs = <<>>
  /\ uniqueLogs = <<>>
  /\ deduplicatedLogs = <<>>
  /\ dailyProfits = <<>>
  /\ itemMapping = NoItems
  /\ unknownItemIds = {}
  /\ itemCache \in { NoCache, FreshCache(clockMs) }
  /\ itemRequests = 0
  /\ catalogServer = Catalog({})
  /\ api = AnyApi
  /\ ui = InitialUi
  /\ hasApi = TRUE
  /\ runsLeft = 1

Spec == Init /\ [][Next]_vars

\* the same runs over a log in which every entry has an id of its own
DistinctIdEntries ==
  { Entry("101", NoonStamp, SaleKind),
    Entry("102", NoonStamp, BetKind),
    Entry("103", NoonStamp, PurchaseKind),
    Entry("105", MidnightStamp, SaleKind) }

InitDistinctIds ==
  /\ probe = NoEntry
  /\ probeOut = NoOutput
  /\ ExchangeIdle
  /\ clockMs \in Clocks
  /\ tz \in Zones
  /\ pc = "idle"
  /\ days = 0
  /\ now = 0
  /\ fromTimestamp = 0
  /\ serverLog = DistinctIdEntries
  /\ fetch = IdleFetch
  /\ categoryLogs = [ c \in Categories |-> <<>> ]
  /\ allLogs = <<>>
  /\ uniqueLogs = <<>>
  /\ deduplicatedLogs = <<>>
  /\ dailyProfits = <<>>
  /\ itemMapping = NoItems
  /\ unknownItemIds = {}
  /\ itemCache \in { NoCache, FreshCache(clockMs) }
  /\ itemRequests = 0
  /\ catalogServer = Catalog({})
  /\ api = AnyApi
  /\ ui = InitialUi
  /\ hasApi = TRUE
  /\ runsLeft = 1

SpecDistinctIds == InitDistinctIds /\ [][Next]_vars

-----------------------------------------------------------------------------
(* parseBazaarTransaction on its own *)

\* the object d with the field f set to the value in opt, if there is one
withField(d, f, opt) ==
  IF opt = <<>> THEN d
  ELSE [ g \in DOMAIN d \cup {f} |-> IF g = f THEN opt[1] ELSE d[g] ]

\* data.items of the bazaar entries under test: absent, empty, one item
\* with or without id and qty, a qty of 0 or below, and two items
ItemLists ==
  { <<>>,
    << <<>> >>,
    << << [ id |-> 206, qty |-> 3 ] >> >>,
    << << [ id |-> 180 ] >> >>,
    << << [ qty |-> 2 ] >> >>,
    << << [ id |-> 999, qty |-> 0 ] >> >>,
    << << [ id |-> 206, qty |-> -2 ] >> >>,
    << << [ id |-> 180, qty |-> 2 ], [ id |-> 206, qty |-> 5 ] >> >> }

BazaarData ==
  { withField(withField(withField(withField(withField(<<>>,
      "cost_total", total), "cost_each", each), "items", items),
      "buyer", buyer), "seller", seller) :
    total \in { <<>>, <<3000>> }, each \in { <<>>, <<0>>, <<1000>> },
    items \in ItemLists, buyer \in { <<>>, <<42>> },
    seller \in { <<>>, <<77>> } }

StructuredTitles == { "Bazaar sell", "Bazaar buy", "BAZAAR SELL" }

\* the item texts of free-text titles
ItemTexts == { "Xanax", "Xanax x3", "Bottle of Beer x12", "Xanax x0" }

YouBought(item) == "You bought " \o item \o " from Bob [42] for $3,000"

YouSold(item) == "You sold " \o item \o " to Bob [42] for $3,000"

TheyBought(item) == "Bob [42] bought " \o item \o " for $3,000"

FromYourBazaar(item) ==
  "Bob [42] bought " \o item \o " from your bazaar for $3,000"

\* titles that look like bazaar trades and match no pattern, or are none
OtherTitles ==
  { "Bazaar sell fee", "You bought Xanax from Bob [?] for $3,000",
    "Bob [42] bought Xanax", "Lottery bet" }

FreeTextTitles ==
  { YouBought(item) : item \in ItemTexts }
    \cup { YouSold(item) : item \in ItemTexts }
    \cup { TheyBought(item) : item \in ItemTexts }
    \cup { FromYourBazaar(item) : item \in ItemTexts }
    \cup OtherTitles

ParseProbes ==
  { LogEntry("1", NoonStamp, title, "Bazaar", "green", d) :
      title \in StructuredTitles, d \in BazaarData }
    \cup { LogEntry("1", NoonStamp, title, "Bazaar", "none", d) :
             title \in FreeTextTitles,
             d \in { <<>>, [ cost_total |-> 3000 ] } }

InitParse ==
  /\ probe \in ParseProbes
  /\ probeOut = NoOutput
  /\ ExchangeIdle
  /\ AnalysisIdle
  /\ itemMapping \in { FullMapping, OldMapping, NoItems }
  /\ unknownItemIds = {}
  /\ itemCache = NoCache
  /\ itemRequests = 0
  /\ catalogServer = Catalog({})
  /\ api = AnyApi
  /\ ui = InitialUi
  /\ hasApi = TRUE
  /\ runsLeft = 0

\* parseBazaarTransaction(probe), with the calls of getItemName it makes
ParseCall ==
  /\ probeOut.op = "none"
  /\ probeOut' = [ op |-> "parseBazaarTransaction",
                   result |-> parseBazaarTransaction(probe, itemMapping) ]
  /\ unknownItemIds' =
       unknownItemIds \cup { id \in parseBazaarTransactionIds(probe) :
                               ~mapped(itemMapping, id) }
  /\ UNCHANGED << exchangeVars, probe, clockMs, tz, pc, days, now,
                  fromTimestamp, serverLog, fetch, resultVars, itemMapping,
                  itemCache, itemRequests, catalogServer, api, ui, hasApi,
                  runsLeft >>

SpecParse == InitParse /\ [][ParseCall]_vars

-----------------------------------------------------------------------------
(* The runs checked for bazaar analytics: a log of bazaar trades in the    *)
(* structured and the free-text form, one of them without an amount, one   *)
(* of an item no catalog knows, and a fee whose title looks like a trade   *)

XanaxSale ==
  [ title |-> "Bazaar sell", category |-> "Bazaar", color |-> "green",
    data |-> [ cost_total |-> 3000, cost_each |-> 1000, buyer |-> 42,
               items |-> << [ id |-> 206, qty |-> 3 ] >> ] ]

\* a purchase whose entry carries no amount field
UnpricedPurchase ==
  [ title |-> "Bazaar buy", category |-> "Bazaar", color |-> "red",
    data |-> [ seller |-> 77, items |-> << [ id |-> 999, qty |-> 2 ] >> ] ]

UnknownItemPurchase ==
  [ title |-> "Bazaar buy", category |-> "Bazaar", color |-> "red",
    data |-> [ cost_total |-> 2000, seller |-> 77,
               items |-> << [ id |-> 999, qty |-> 2 ] >> ] ]

SaleFee ==
  [ title |-> "Bazaar sell fee", category |-> "Bazaar", color |-> "red",
    data |-> [ fee |-> 100 ] ]

XanaxPurchaseText ==
  [ title |-> YouBought("Xanax x3"), category |-> "Bazaar",
    color |-> "none", data |-> [ cost_total |-> 3000 ] ]

BazaarEntries ==
  { Entry("201", NoonStamp, XanaxSale),
    Entry("202", NoonStamp, UnpricedPurchase),
    Entry("203", NoonStamp, SaleFee),
    Entry("204", MidnightStamp, XanaxPurchaseText),
    Entry("205", NoonStamp, UnknownItemPurchase) }

InitBazaar ==
  /\ probe = NoEntry
  /\ probeOut = NoOutput
  /\ ExchangeIdle
  /\ clockMs = DayStartMs(Today) + 12 * MsPerHour
  /\ tz = UTCZone
  /\ pc = "idle"
  /\ days = 0
  /\ now = 0
  /\ fromTimestamp = 0
  /\ serverLog = BazaarEntries
  /\ fetch = IdleFetch
  /\ categoryLogs = [ c \in Categories |-> <<>> ]
  /\ allLogs = <<>>
  /\ uniqueLogs = <<>>
  /\ deduplicatedLogs = <<>>
  /\ dailyProfits = <<>>
  /\ itemMapping = NoItems
  /\ unknownItemIds = {}
  /\ itemCache \in { NoCache, FreshCache(clockMs) }
  /\ itemRequests = 0
  /\ catalogServer \in { Catalog({}), Catalog({"Drug"}) }
  /\ api = AnyApi
  /\ ui = InitialUi
  /\ hasApi = TRUE
  /\ runsLeft = 1

SpecBazaar == InitBazaar /\ [][Next]_vars

-----------------------------------------------------------------------------
(* The runs checked for item names: up to MaxRuns analyses in a row, a day *)
(* apart or at once, with a cache that is missing, fresh or expired and an *)
(* items API that answers for every category or fails for the alcohols     *)

BeerSale ==
  [ title |-> "Bazaar sell", category |-> "Bazaar", color |-> "green",
    data |-> [ cost_total |-> 1200, cost_each |-> 100, buyer |-> 42,
               items |-> << [ id |-> 180, qty |-> 12 ] >> ] ]

ItemEntries ==
  { Entry("201", NoonStamp, XanaxSale),
    Entry("205", NoonStamp, UnknownItemPurchase),
    Entry("206", NoonStamp, BeerSale) }

InitItems ==
  /\ probe = NoEntry
  /\ probeOut = NoOutput
  /\ ExchangeIdle
  /\ clockMs = DayStartMs(Today) + 12 * MsPerHour
  /\ tz = UTCZone
  /\ pc = "idle"
  /\ days = 0
  /\ now = 0
  /\ fromTimestamp = 0
  /\ serverLog = ItemEntries
  /\ fetch = IdleFetch
  /\ categoryLogs = [ c \in Categories |-> <<>> ]
  /\ allLogs = <<>>
  /\ uniqueLogs = <<>>
  /\ deduplicatedLogs = <<>>
  /\ dailyProfits = <<>>
  /\ itemMapping = NoItems
  /\ unknownItemIds = {}
  /\ itemCache \in { NoCache, FreshCache(clockMs), ExpiredCache(clockMs),
                     LongExpiredCache(clockMs) }
  /\ itemRequests = 0
  /\ catalogServer \in { Catalog({}), Catalog({"Alcohol"}) }
  /\ api = AnyApi
  /\ ui = InitialUi
  /\ hasApi = TRUE
  /\ runsLeft = MaxRuns

SpecItems == InitItems /\ [][Next]_vars

-----------------------------------------------------------------------------
(* The runs checked for clicks: up to MaxRuns clicks on whichever button   *)
(* can be clicked, in a browser with or without a stored API key           *)

InitClicks ==
  /\ probe = NoEntry
  /\ probeOut = NoOutput
  /\ ExchangeIdle
  /\ clockMs = DayStartMs(Today) + 12 * MsPerHour
  /\ tz = UTCZone
  /\ pc = "idle"
  /\ days = 0
  /\ now = 0
  /\ fromTimestamp = 0
  /\ serverLog = ItemEntries
  /\ fetch = IdleFetch
  /\ categoryLogs = [ c \in Categories |-> <<>> ]
  /\ allLogs = <<>>
  /\ uniqueLogs = <<>>
  /\ deduplicatedLogs = <<>>
  /\ dailyProfits = <<>>
  /\ itemMapping = NoItems
  /\ unknownItemIds = {}
  /\ itemCache \in { NoCache, FreshCache(clockMs) }
  /\ itemRequests = 0
  /\ catalogServer = Catalog({})
  /\ api = AnyApi
  /\ ui = InitialUi
  /\ hasApi \in BOOLEAN
  /\ runsLeft = MaxRuns

SpecClicks == InitClicks /\ [][Next]_vars

-----------------------------------------------------------------------------
(* The runs checked for paging: each category has a log of its own that    *)
(* the API sends newest first, at most `limit` entries a page; two entries *)
(* of the money log have the same timestamp; a request for the money log   *)
(* may fail, or the API may send the same page over and over               *)

Paged(log, limit, failAt) ==
  [ kind |-> "paged", log |-> log, limit |-> limit, failAt |-> failAt ]

Stubborn(page) == [ kind |-> "stubborn", page |-> page, failAt |-> 0 ]

MoneyLog ==
  << Entry("301", NoonStamp + 120, SaleKindGeneral),
     Entry("302", NoonStamp + 60, BetKind),
     Entry("303", NoonStamp + 60, PiggyKind),
     Entry("304", NoonStamp, PurchaseKind) >>

OutgoingLog == << Entry("302", NoonStamp + 60, BetKind) >>

IncomingLog == << Entry("301", NoonStamp + 120, SaleKind) >>

\* page sizes of the API
Limits == 1..(MaxLogs + 1)

\* the request that fails, if any: none, the first, the second
FailAts == { 0, 1, 2 }

PagingApis ==
  { [ c \in Categories |->
        IF c = 13 THEN Paged(MoneyLog, limit, failAt)
        ELSE IF c = 14 THEN Paged(OutgoingLog, limit, 0)
        ELSE Paged(IncomingLog, limit, 0) ] :
      limit \in Limits, failAt \in FailAts }
  \cup
  { [ c \in Categories |->
        IF c = 13 THEN Stubborn(<< MoneyLog[1] >>)
        ELSE IF c = 14 THEN Paged(OutgoingLog, 1, 0)
        ELSE Paged(<<>>, 1, 0) ] }

InitPaging ==
  /\ probe = NoEntry
  /\ probeOut = NoOutput
  /\ ExchangeIdle
  /\ clockMs = DayStartMs(Today) + 12 * MsPerHour
  /\ tz = UTCZone
  /\ pc = "idle"
  /\ days = 0
  /\ now = 0
  /\ fromTimestamp = 0
  /\ serverLog = Range(MoneyLog) \cup Range(OutgoingLog) \cup Range(IncomingLog)
  /\ fetch = IdleFetch
  /\ categoryLogs = [ c \in Categories |-> <<>> ]
  /\ allLogs = <<>>
  /\ uniqueLogs = <<>>
  /\ deduplicatedLogs = <<>>
  /\ dailyProfits = <<>>
  /\ itemMapping = NoItems
  /\ unknownItemIds = {}
  /\ itemCache \in { NoCache, FreshCache(clockMs) }
  /\ itemRequests = 0
  /\ catalogServer = Catalog({})
  /\ api \in PagingApis
  /\ ui = InitialUi
  /\ hasApi = TRUE
  /\ runsLeft = 1

SpecPaging == InitPaging /\ [][Next]_vars

\* every request is answered or fails in the end, and analyzeProfitForDays
\* goes on when Promise.all has the results of the three calls (AllFetched
\* is ENABLED <<Aggregate>>_vars, so the last conjunct is WF_vars(Aggregate))
SpecPagingFair ==
  /\ SpecPaging
  /\ WF_vars(FetchAndCacheItems)
  /\ WF_vars(\E c \in Categories : FetchPage(c) \/ FetchPageError(c))
  /\ ([]<>(~AllFetched) \/ []<><<Aggregate>>_vars)

-----------------------------------------------------------------------------
(* calculateBazaarAnalytics on its own: the trades of one day, parsed from *)
(* sales and purchases of Xanax and Bottle of Beer, one of them a sale     *)
(* whose item text ends in x0, another a purchase reported with qty -2     *)

TradeKind(title, total, seconds, data) ==
  LogEntry("1", NoonStamp + seconds, title, "Bazaar", "none",
           withField(data, "cost_total", <<total>>))

TradeEntries ==
  { TradeKind("Bazaar sell", 30, 0,
              [ buyer |-> 42, items |-> << [ id |-> 206, qty |-> 3 ] >> ]),
    TradeKind("Bazaar buy", 24, 60,
              [ seller |-> 77, items |-> << [ id |-> 206, qty |-> 3 ] >> ]),
    TradeKind(YouSold("Xanax x0"), 20, 120, <<>>),
    TradeKind("Bazaar buy", 20, 180,
              [ seller |-> 42, items |-> << [ id |-> 180, qty |-> 2 ] >> ]),
    TradeKind(YouSold("Bottle of Beer"), 12, 240, <<>>),
    TradeKind("Bazaar buy", 20, 300,
              [ seller |-> 77, items |-> << [ id |-> 206, qty |-> 0 - 2 ] >> ]) }

TradePool ==
  { parseBazaarTransaction(entry, FullMapping)[1] : entry \in TradeEntries }

InitAnalytics ==
  /\ probe \in SeqsUpTo(TradePool, MaxTrades)
  /\ probeOut = NoOutput
  /\ ExchangeIdle
  /\ RunIdle

AnalyticsCall ==
  /\ probeOut.op = "none"
  /\ probeOut' = [ op |-> "calculateBazaarAnalytics",
                   result |-> calculateBazaarAnalytics(probe) ]
  /\ UNCHANGED << exchangeVars, probe, runVars >>

SpecAnalytics == InitAnalytics /\ [][AnalyticsCall]_vars

-----------------------------------------------------------------------------
(* displayBazaarAnalytics on its own: the days of a range, today first,    *)
(* each with the analytics of its trades; of a DailyProfit only the fields *)
(* that displayBazaarAnalytics reads are kept                              *)

MergeEntries ==
  { TradeKind("Bazaar sell", 30, 0,
              [ buyer |-> 42, items |-> << [ id |-> 206, qty |-> 3 ] >> ]),
    TradeKind("Bazaar buy", 24, 60,
              [ seller |-> 77, items |-> << [ id |-> 206, qty |-> 3 ] >> ]),
    TradeKind("Bazaar buy", 20, 180,
              [ seller |-> 42, items |-> << [ id |-> 180, qty |-> 2 ] >> ]),
    TradeKind("Bazaar buy", 10, 360,
              [ seller |-> 77, items |-> << [ id |-> 206, qty |-> 1 ] >> ]) }

MergePool ==
  { parseBazaarTransaction(entry, FullMapping)[1] : entry \in MergeEntries }

\* the DailyProfit of the day i - 1 days ago with the trades at that day's
\* times
DayOf(trades, i) ==
  LET dayTrades ==
        [ k \in 1..Len(trades) |->
            [ trades[k] EXCEPT
                !.timestamp = @ - (i - 1) * SecondsPerDay ] ]
  IN  [ date |-> Today - (i - 1),
        bazaarAnalytics |-> calculateBazaarAnalytics(dayTrades) ]

InitMerge ==
  /\ \E n \in 1..MaxDays :
       \E lists \in [ 1..n -> SeqsUpTo(MergePool, MaxTrades) ] :
         probe = [ i \in 1..n |-> DayOf(lists[i], i) ]
  /\ probeOut = NoOutput
  /\ ExchangeIdle
  /\ RunIdle

DisplayCall ==
  /\ probeOut.op = "none"
  /\ probeOut' = [ op |-> "displayBazaarAnalytics",
                   result |-> displayBazaarAnalytics(probe) ]
  /\ UNCHANGED << exchangeVars, probe, runVars >>

SpecMerge == InitMerge /\ [][DisplayCall]_vars

-----------------------------------------------------------------------------
(* One TornExchangeAPI whose methods are called at any time, also while    *)
(* earlier calls are still waiting for their timer                         *)

InitExchange ==
  /\ probe = NoEntry
  /\ probeOut = NoOutput
  /\ ExchangeIdle
  /\ clockMs = ExchangeStart
  /\ tz = UTCZone
  /\ pc = "idle"
  /\ days = 0
  /\ now = 0
  /\ fromTimestamp = 0
  /\ serverLog = {}
  /\ fetch = IdleFetch
  /\ categoryLogs = [ c \in Categories |-> <<>> ]
  /\ allLogs = <<>>
  /\ uniqueLogs = <<>>
  /\ deduplicatedLogs = <<>>
  /\ dailyProfits = <<>>
  /\ itemMapping = NoItems
  /\ unknownItemIds = {}
  /\ itemCache = NoCache
  /\ itemRequests = 0
  /\ catalogServer = [ c \in Range(ITEM_CATEGORIES) |->
                         [ failed |-> TRUE, items |-> <<>> ] ]
  /\ api = AnyApi
  /\ ui = InitialUi
  /\ hasApi = TRUE
  /\ runsLeft = 0

SpecExchange == InitExchange /\ [][NextExchange]_vars

-----------------------------------------------------------------------------
(* Claims about extractAmount *)

AmountFieldOrder ==
  << "cost_total", "money_gained", "money_mugged", "bet_amount", "bet",
     "withdrawn", "cost", "money", "won_amount", "pot", "credits", "pay",
     "rent", "upkeep_paid", "donated", "bounty_reward", "deposited",
     "amount", "fee", "value" >>

FirstPositive(data) ==
  LET hits == { i \in 1..Len(AmountFieldOrder) :
                  /\ AmountFieldOrder[i] \in DOMAIN data
                  /\ data[AmountFieldOrder[i]] > 0 }
  IN  IF hits = {} THEN 0 ELSE data[AmountFieldOrder[Min(hits)]]

\* C4: extractAmount returns the value of the first field of the fixed
\* priority list that is present and strictly positive, 0 when there is
\* none; the result is never negative and the entry is left as it was.
ThmC4 ==
  [][ probeOut'.op = "extractAmount" =>
        /\ probeOut'.amount = FirstPositive(probe.data)
        /\ probeOut'.amount >= 0
        /\ probe' = probe ]_vars

\* cost_total = 100 and money_gained = 50 are both set, and 100 came out
WitC4 ==
  /\ probeOut.op = "extractAmount"
  /\ DOMAIN probe.data = { "cost_total", "money_gained" }
  /\ probe.data["cost_total"] = 100
  /\ probe.data["money_gained"] = 50
  /\ probeOut.amount = 100

-----------------------------------------------------------------------------
(* Claims about the classifier *)

NeutralPhrase(t) ==
  \/ includes(t, "piggy bank deposit")
  \/ includes(t, "piggy bank withdraw")
  \/ includes(t, "bank deposit") /\ ~includes(t, "interest")
  \/ includes(t, "bank withdraw") /\ ~includes(t, "fee")
  \/ includes(t, "bank invest")
  \/ includes(t, "trade money add")
  \/ includes(t, "trade money remove")
  \/ includes(t, "faction money balance change")

\* C5: an entry whose lower-cased title contains a neutral phrase is
\* classified Neutral whatever its color, category or other keywords.
ThmC5 ==
  (probeOut.op = "classify" /\ NeutralPhrase(toLowerCase(probe.title)))
    => probeOut.class = "Neutral"

\* "Piggy bank deposit" with color green came out Neutral
WitC5 ==
  /\ probeOut.op = "classify"
  /\ probe.title = "Piggy bank deposit"
  /\ probe.color = "green"
  /\ probeOut.class = "Neutral"

ExpenseKeywords ==
  { "buy", "purchase", "ammo buy", "bet", "lottery bet",
    "spin the wheel start", "high-low start", "russian roulette join",
    "russian roulette start", "blackjack start", "bookie bet", "deposit",
    "outgoing", "send", "transfer", "upkeep", "donate", "bounty place",
    "money send", "mug receive", "education start", "property upgrade" }

HasExpenseKeyword(t) ==
  \/ \E k \in ExpenseKeywords : includes(t, k)
  \/ /\ includes(t, "casino")
     /\ \E k \in { "join", "start", "lose" } : includes(t, k)

IncomeKeywords ==
  { "sell", "sale", "win", "withdraw", "receive", "incoming", "gain",
    "profit", "cash in" }

HasIncomeKeyword(t, c) ==
  \/ \E k \in IncomeKeywords : includes(t, k)
  \/ includes(t, "complete") /\ includes(c, "missions")
  \/ includes(t, "pay") /\ ~includes(t, "upkeep")
  \/ includes(t, "rent") /\ includes(t, "owner")

CascadeC6(t, c, color) ==
  CASE HasExpenseKeyword(t) -> "Expense"
    [] ~HasExpenseKeyword(t) /\ HasIncomeKeyword(t, c) -> "Income"
    [] ~HasExpenseKeyword(t) /\ ~HasIncomeKeyword(t, c)
         /\ color = "green" -> "Income"
    [] ~HasExpenseKeyword(t) /\ ~HasIncomeKeyword(t, c)
         /\ color = "red" -> "Expense"
    [] ~HasExpenseKeyword(t) /\ ~HasIncomeKeyword(t, c)
         /\ color \notin { "green", "red" }
         /\ includes(c, "incoming") -> "Income"
    [] OTHER -> "Expense"

\* C6: for a non-neutral entry the decision is first-match-wins: expense
\* keyword, then income keyword, then color, then category, then Expense.
ThmC6 ==
  (probeOut.op = "classify" /\ probeOut.class # "Neutral")
    => probeOut.class = CascadeC6(toLowerCase(probe.title),
                                  toLowerCase(probe.category), probe.color)

\* a green entry whose title matches an expense and an income keyword
\* ("mug receive", "receive") came out Expense
WitC6 ==
  /\ probeOut.op = "classify"
  /\ probe.title = "Mug receive"
  /\ probe.color = "green"
  /\ HasIncomeKeyword(toLowerCase(probe.title), toLowerCase(probe.category))
  /\ probeOut.class = "Expense"

-----------------------------------------------------------------------------
(* Claims about deduplication and aggregation *)

IdsOf(logs) == { logs[i].id : i \in 1..Len(logs) }

FirstWithId(id, logs) == logs[Min({ i \in 1..Len(logs) : logs[i].id = id })]

PositionOfId(id, logs) == Min({ i \in 1..Len(logs) : logs[i].id = id })

\* the first entry with this id in the order category 13, 14, 17
FirstFetched(id) ==
  IF id \in IdsOf(categoryLogs[13]) THEN FirstWithId(id, categoryLogs[13])
  ELSE IF id \in IdsOf(categoryLogs[14])
    THEN FirstWithId(id, categoryLogs[14])
  ELSE FirstWithId(id, categoryLogs[17])

\* C1: the deduplicated list holds each distinct id of the combined list
\* exactly once, the entry kept for an id is the first one with that id in
\* the order category 13, 14, 17, and the kept entries stay in their
\* original relative order.
ThmC1 ==
  pc = "done" =>
    /\ IdsOf(uniqueLogs) = IdsOf(allLogs)
    /\ \A i, j \in 1..Len(uniqueLogs) :
         i # j => uniqueLogs[i].id # uniqueLogs[j].id
    /\ \A i \in 1..Len(uniqueLogs) :
         uniqueLogs[i] = FirstFetched(uniqueLogs[i].id)
    /\ \A i, j \in 1..Len(uniqueLogs) :
         i < j => PositionOfId(uniqueLogs[i].id, allLogs)
                    < PositionOfId(uniqueLogs[j].id, allLogs)

\* one id came twice, with different details, through two categories, and
\* one entry was kept
WitC1 ==
  /\ pc = "done"
  /\ Len(allLogs) = 2
  /\ Len(categoryLogs[13]) = 1
  /\ allLogs[1].id = allLogs[2].id
  /\ allLogs[1] # allLogs[2]
  /\ uniqueLogs = << allLogs[1] >>

\* the timestamp of an entry as a Date value
StampMs(log) == log.timestamp * MsPerSecond

\* the sum of the extracted amounts of the entries kept for the ids
AmountOfIds(ids) ==
  SumOver([ id \in ids |-> extractAmount(FirstWithId(id, allLogs)) ], ids)

\* the ids whose first entry has class cls and the UTC date `date`
IdsOfDay(date, cls) ==
  { id \in IdsOf(allLogs) :
      /\ dateKey(StampMs(FirstWithId(id, allLogs))) = date
      /\ classify(FirstWithId(id, allLogs)) = cls }

\* C2: for every returned day, income is the sum of the amounts of the
\* distinct ids classified Income that were bucketed into the day and
\* expenses that of the ids classified Expense: an id fetched through
\* several categories counts once, a Neutral entry adds nothing.
ThmC2 ==
  pc = "done" =>
    \A n \in 1..Len(dailyProfits) :
      LET day == dailyProfits[n]
      IN  /\ day.income = AmountOfIds(IdsOfDay(day.date, "Income"))
          /\ day.expenses = AmountOfIds(IdsOfDay(day.date, "Expense"))
          /\ day.income + day.expenses =
               AmountOfIds(IdsOfDay(day.date, "Income")
                             \cup IdsOfDay(day.date, "Expense"))

\* a sale fetched through two categories was counted once
WitC2 ==
  /\ pc = "done"
  /\ Len(allLogs) = 2
  /\ allLogs[1].id = allLogs[2].id
  /\ classify(allLogs[1]) = "Income"
  /\ \E n \in 1..Len(dailyProfits) :
       /\ dailyProfits[n].date = dateKey(StampMs(allLogs[1]))
       /\ dailyProfits[n].income = extractAmount(allLogs[1])
       /\ dailyProfits[n].income > 0

\* C3: deduplication followed by aggregation returns the same DailyProfit[]
\* for every rearrangement of the combined entry list, also when entries
\* have equal timestamps or equal amounts.
CexC3 ==
  pc = "done" =>
    \A other \in Rearrangements(allLogs) :
      processDailyProfits(sortByTimestamp(uniqueLogsMapValues(other)),
                          days, tz, clockMs, itemMapping) = dailyProfits

\* the dates of the records returned
DatesReturned == { dailyProfits[n].date : n \in 1..Len(dailyProfits) }

\* C7: an entry with a bucket whose title contains "piggy bank deposit" and
\* whose amount is > 0 shows in its day's transactions as a summary with
\* isNeutral = true and isIncome = false.
CexC7 ==
  pc = "done" =>
    \A i \in 1..Len(uniqueLogs) :
      LET log == uniqueLogs[i]
      IN  ( /\ dateKey(StampMs(log)) \in DatesReturned
            /\ includes(toLowerCase(log.title), "piggy bank deposit")
            /\ extractAmount(log) > 0 )
          => \E n \in 1..Len(dailyProfits) :
               /\ dailyProfits[n].date = dateKey(StampMs(log))
               /\ \E t \in Range(dailyProfits[n].transactions) :
                    /\ t.title = log.title
                    /\ t.isNeutral
                    /\ ~t.isIncome
                    /\ t.amount >= extractAmount(log)
                    /\ t.count >= 1

\* the ids kept whose entry is counted and lies on the local day `date`
CountedIdsOfLocalDay(date) ==
  { id \in IdsOf(allLogs) :
      /\ LocalDay(tz, StampMs(FirstWithId(id, allLogs))) = date
      /\ classify(FirstWithId(id, allLogs)) # "Neutral" }

\* C8: every counted entry is accumulated into the record of the local
\* calendar day of its timestamp: the totals of the record of day D are
\* those of the entries between 00:00:00 and 23:59:59 local time of D.
CexC8 ==
  pc = "done" =>
    \A n \in 1..Len(dailyProfits) :
      dailyProfits[n].income + dailyProfits[n].expenses =
        AmountOfIds(CountedIdsOfLocalDay(dailyProfits[n].date))

\* C9: every deduplicated entry whose timestamp lies in the window
\* [now - days * 24 h, now] that was fetched has a day bucket.
CexC9 ==
  pc = "done" =>
    \A i \in 1..Len(uniqueLogs) :
      ( uniqueLogs[i].timestamp >= fromTimestamp
        /\ uniqueLogs[i].timestamp <= now )
      => dateKey(StampMs(uniqueLogs[i])) \in DatesReturned

NonIncreasing(transactions) ==
  \A i \in 1..(Len(transactions) - 1) :
    transactions[i].amount >= transactions[i + 1].amount

\* C10: analyzeProfitForDays(days) returns exactly `days` records, their
\* dates strictly ascending and ending with the current day, and the
\* transaction summaries of each record in non-increasing order of amount.
CexC10 ==
  pc = "done" =>
    /\ Len(dailyProfits) = days
    /\ \A n \in 1..(Len(dailyProfits) - 1) :
         dailyProfits[n].date < dailyProfits[n + 1].date
    /\ dailyProfits[Len(dailyProfits)].date = LocalDay(tz, clockMs)
    /\ \A n \in 1..Len(dailyProfits) :
         NonIncreasing(dailyProfits[n].transactions)

-----------------------------------------------------------------------------
(* Claims about parseBazaarTransaction *)

\* the trade parseBazaarTransaction returned for probe
ParsedTrade == probeOut.result[1]

ParseReturned == probeOut.op = "parseBazaarTransaction"

ParseReturnedTrade == ParseReturned /\ probeOut.result # <<>>

\* the entry gives the field f of obj: it is there and not 0
Given(obj, f) == f \in DOMAIN obj /\ obj[f] # 0

\* data.items[0] of probe, <<>> if there is none
FirstItemOfProbe ==
  IF "items" \in DOMAIN probe.data /\ Len(probe.data["items"]) > 0
  THEN probe.data["items"][1] ELSE <<>>

\* the name an item id resolves to
Resolved(id) ==
  IF id \in DOMAIN itemMapping THEN itemMapping[id]
  ELSE "Item #" \o ToString(id)

\* C12: for an entry with amount > 0 whose title is "bazaar sell" in any
\* letter case, parseBazaarTransaction returns a sale whose totalAmount is
\* the extracted amount and whose itemName, quantity, tradingPartner and
\* unitPrice are resolve(data.items[0].id), data.items[0].qty,
\* "Player [<data.buyer>]" and data.cost_each, each where the entry gives
\* that field; for "bazaar buy" it returns the same as a purchase, with the
\* counterparty taken from data.seller.
ThmC12 ==
  ( /\ ParseReturned
    /\ extractAmount(probe) > 0
    /\ toLowerCase(probe.title) \in { "bazaar sell", "bazaar buy" } ) =>
    LET sale == toLowerCase(probe.title) = "bazaar sell"
        partnerField == IF sale THEN "buyer" ELSE "seller"
        item == FirstItemOfProbe
    IN  /\ probeOut.result # <<>>
        /\ ParsedTrade.isSale = sale
        /\ ParsedTrade.totalAmount = extractAmount(probe)
        /\ Given(item, "id") => ParsedTrade.itemName = Resolved(item["id"])
        /\ Given(item, "qty") => ParsedTrade.quantity = item["qty"]
        /\ Given(probe.data, partnerField) =>
             ParsedTrade.tradingPartner =
               "Player [" \o ToString(probe.data[partnerField]) \o "]"
        /\ Given(probe.data, "cost_each") =>
             ParsedTrade.unitPrice.num =
               probe.data["cost_each"] * ParsedTrade.unitPrice.den

\* a "Bazaar buy" entry that names both a buyer and a seller, an item the
\* mapping knows, a quantity and a unit price was parsed
WitC12 ==
  /\ ParseReturnedTrade
  /\ probe.title = "Bazaar buy"
  /\ Given(probe.data, "buyer")
  /\ Given(probe.data, "seller")
  /\ Given(probe.data, "cost_each")
  /\ Given(FirstItemOfProbe, "qty")
  /\ Given(FirstItemOfProbe, "id")
  /\ ParsedTrade.itemName = "Xanax"
  /\ ParsedTrade.tradingPartner = "Player [77]"
  /\ ~ParsedTrade.isSale

\* what an item text splits into: "<name> x<N>" into <name> and N, any
\* other text into itself and 1
SplitOf(item) ==
  IF item = "Xanax x3" THEN [ itemName |-> "Xanax", quantity |-> 3 ]
  ELSE IF item = "Bottle of Beer x12"
  THEN [ itemName |-> "Bottle of Beer", quantity |-> 12 ]
  ELSE IF item = "Xanax x0" THEN [ itemName |-> "Xanax", quantity |-> 0 ]
  ELSE [ itemName |-> item, quantity |-> 1 ]

\* the trade returned is one with Bob [42] of the item text `item`
TradeWithBob(item, isSale) ==
  /\ probeOut.result # <<>>
  /\ ParsedTrade.isSale = isSale
  /\ ParsedTrade.tradingPartner = "Bob"
  /\ ParsedTrade.playerId = "42"
  /\ ParsedTrade.itemName = SplitOf(item).itemName
  /\ ParsedTrade.quantity = SplitOf(item).quantity

\* C13: with amount > 0, "You bought <item> from <name> [<id>] for $<amount>"
\* parses to a purchase and "You sold <item> to <name> [<id>] for $<amount>"
\* to a sale, with tradingPartner = <name> and playerId = <id>; an item text
\* "<name> x<N>" gives itemName = <name> and quantity = N, any other item
\* text gives quantity 1.
ThmC13 ==
  ( ParseReturned /\ extractAmount(probe) > 0 ) =>
    \A item \in ItemTexts :
      /\ probe.title = YouBought(item) => TradeWithBob(item, FALSE)
      /\ probe.title = YouSold(item) => TradeWithBob(item, TRUE)

\* "You sold Bottle of Beer x12 to Bob [42] for $3,000" was parsed
WitC13 ==
  /\ ParseReturnedTrade
  /\ probe.title = YouSold("Bottle of Beer x12")
  /\ ParsedTrade.itemName = "Bottle of Beer"
  /\ ParsedTrade.quantity = 12
  /\ ParsedTrade.isSale

\* C14: with amount > 0, "<name> [<id>] bought <item> from your bazaar for
\* $<amount>" parses to a sale to <name>/<id> whose item name and quantity
\* come from <item> alone.
CexC14 ==
  ( ParseReturned /\ extractAmount(probe) > 0 ) =>
    \A item \in ItemTexts :
      probe.title = FromYourBazaar(item) => TradeWithBob(item, TRUE)

\* C15: a trade returned for an entry without data.cost_each has
\* unitPrice = totalAmount / quantity, so unitPrice * quantity = totalAmount.
CexC15 ==
  ( ParseReturnedTrade /\ "cost_each" \notin DOMAIN probe.data ) =>
    ParsedTrade.unitPrice.num * ParsedTrade.quantity =
      ParsedTrade.totalAmount * ParsedTrade.unitPrice.den

\* C16: every trade returned has a quantity >= 1 and a finite unitPrice.
CexC16 ==
  ParseReturnedTrade =>
    ParsedTrade.quantity >= 1 /\ ParsedTrade.unitPrice.den # 0

-----------------------------------------------------------------------------
(* Claims about entries that the aggregation leaves out *)

\* the trades of all the days returned
TradesReturned ==
  UNION { Range(dailyProfits[n].bazaarAnalytics.bazaarTransactions) :
            n \in 1..Len(dailyProfits) }

\* C11: entries whose extracted amount is 0 change nothing: the records
\* returned (income, expenses, transactions, bazaar analytics of every day)
\* are those returned for the input without these entries.
ThmC11 ==
  pc = "done" =>
    dailyProfits =
      processDailyProfits(
        sortByTimestamp(uniqueLogsMapValues(
          SelectSeq(allLogs, LAMBDA log : extractAmount(log) # 0))),
        days, tz, clockMs, itemMapping)

\* a run returned whose input held a bazaar purchase without an amount and
\* a sale with one, both of a day returned
WitC11 ==
  /\ pc = "done"
  /\ \E i, j \in 1..Len(allLogs) :
       /\ extractAmount(allLogs[i]) = 0
       /\ isBazaarTransaction(allLogs[i])
       /\ dateKey(StampMs(allLogs[i])) \in DatesReturned
       /\ extractAmount(allLogs[j]) > 0
       /\ dateKey(StampMs(allLogs[j])) = dateKey(StampMs(allLogs[i]))
  /\ TradesReturned # {}

\* titles that pass isBazaarTransaction and are neither "Bazaar sell" nor
\* "Bazaar buy" nor of one of the four free-text forms
UnparseableTitles ==
  { "Bazaar sell fee", "You bought Xanax from Bob [?] for $3,000" }

\* C17: a bazaar candidate whose title matches no form adds no trade to any
\* day's bazaar analytics, and if it is not Neutral and its amount is > 0
\* its amount is part of its day's income or expenses like that of any
\* other entry.
ThmC17 ==
  pc = "done" =>
    \A i \in 1..Len(uniqueLogs) :
      LET log == uniqueLogs[i]
      IN  ( /\ isBazaarTransaction(log)
            /\ log.title \in UnparseableTitles ) =>
            /\ \A t \in TradesReturned : t.originalTitle # log.title
            /\ \A n \in 1..Len(dailyProfits) :
                 LET day == dailyProfits[n]
                 IN  ( /\ day.date = dateKey(StampMs(log))
                       /\ classify(log) # "Neutral"
                       /\ extractAmount(log) > 0 ) =>
                       /\ log.id \in IdsOfDay(day.date, classify(log))
                       /\ day.income =
                            AmountOfIds(IdsOfDay(day.date, "Income"))
                       /\ day.expenses =
                            AmountOfIds(IdsOfDay(day.date, "Expense"))
                       /\ \E k \in 1..Len(day.transactions) :
                            /\ day.transactions[k].title = log.title
                            /\ day.transactions[k].amount >=
                                 extractAmount(log)

\* a run returned a day with the fee "Bazaar sell fee" among its expenses
\* or income and a trade parsed from another entry
WitC17 ==
  /\ pc = "done"
  /\ \E i \in 1..Len(uniqueLogs) :
       /\ uniqueLogs[i].title = "Bazaar sell fee"
       /\ isBazaarTransaction(uniqueLogs[i])
       /\ \E n \in 1..Len(dailyProfits) :
            /\ dailyProfits[n].date = dateKey(StampMs(uniqueLogs[i]))
            /\ dailyProfits[n].income + dailyProfits[n].expenses
                 >= extractAmount(uniqueLogs[i])
            /\ extractAmount(uniqueLogs[i]) > 0
            /\ dailyProfits[n].bazaarAnalytics.totalTransactions > 0

-----------------------------------------------------------------------------
(* Claims about item names and the item cache *)

\* what getAnalysisIssues() reports as unresolvedItemIds
ReportedUnresolved == Cardinality(unknownItemIds)

\* the entries of the latest run that had an item id resolved: bazaar
\* entries of a day returned, with an amount, whose first item has an id
EntriesResolved ==
  { log \in Range(uniqueLogs) :
      /\ dateKey(StampMs(log)) \in DatesReturned
      /\ toLowerCase(log.title) \in { "bazaar sell", "bazaar buy" }
      /\ extractAmount(log) > 0
      /\ "items" \in DOMAIN log.data
      /\ Len(log.data["items"]) > 0
      /\ Given(log.data["items"][1], "id") }

IdResolved(log) == log.data["items"][1]["id"]

\* C18: an id of the mapping resolves to its name and is not recorded, an
\* id the mapping lacks resolves to "Item #<id>" and is recorded as
\* unresolved; the set is emptied when a run starts, so that after every
\* run the number reported is the number of distinct ids the latest run
\* missed.
ThmC18 ==
  pc = "done" =>
    /\ \A log \in EntriesResolved :
         \E t \in TradesReturned :
           /\ t.timestamp = log.timestamp
           /\ t.totalAmount = extractAmount(log)
           /\ t.itemName = Resolved(IdResolved(log))
    /\ unknownItemIds =
         { IdResolved(log) : log \in
             { l \in EntriesResolved : IdResolved(l) \notin DOMAIN itemMapping } }
    /\ ReportedUnresolved =
         Cardinality({ id \in { IdResolved(log) : log \in EntriesResolved } :
                         id \notin DOMAIN itemMapping })

\* a second run has returned that resolved Xanax from the mapping and
\* missed item 999 alone
WitC18 ==
  /\ pc = "done"
  /\ runsLeft = MaxRuns - 2
  /\ unknownItemIds = {999}
  /\ \E t \in TradesReturned : t.itemName = "Xanax"
  /\ \E t \in TradesReturned : t.itemName = "Item #999"

\* the name the items API gives the id, if a request that does not fail
\* lists it
CatalogNames(id) ==
  UNION { { catalogServer[c].items[k].name :
              k \in { j \in 1..Len(catalogServer[c].items) :
                        catalogServer[c].items[j].id = id } } :
          c \in { b \in Range(ITEM_CATEGORIES) : ~catalogServer[b].failed } }

\* the cache holds a catalog whose expiresAt has not passed at `clock`
CacheValidAt(clock) ==
  /\ itemCache.stored
  /\ itemCache.data.expiresAt > clock

\* C19: when a run starts with a cached catalog that has not expired, the
\* mapping is the cached one and no catalog request is sent; when the cache
\* is missing or its expiresAt has passed, the run parses no entry before
\* the catalog is refetched, the mapping replaced by it and cached; from
\* then on the run keeps its mapping, whatever the clock says.
ThmC19 ==
  [][ /\ ( pc \in { "idle", "done" } /\ pc' \notin { "idle", "done" } ) =>
           IF CacheValidAt(clockMs')
           THEN /\ pc' = "fetching"
                /\ itemMapping' = itemCache.data.items
                /\ itemRequests' = 0
           ELSE /\ pc' = "loadingItems"
                /\ itemRequests' = 0
                /\ dailyProfits' = <<>>
      /\ ( pc = "loadingItems" /\ pc' # pc ) =>
           /\ pc' = "fetching"
           /\ itemRequests' = Len(ITEM_CATEGORIES)
           /\ \A id \in DOMAIN itemMapping' :
                itemMapping'[id] \in CatalogNames(id)
           /\ \A id \in { 180, 206, 999 } :
                CatalogNames(id) # {} => id \in DOMAIN itemMapping'
           /\ itemCache'.stored
           /\ itemCache'.data.items = itemMapping'
           /\ itemCache'.data.expiresAt = clockMs + ItemCacheMs
      /\ pc = "fetching" =>
           /\ itemMapping' = itemMapping
           /\ itemRequests' = itemRequests
           /\ pc' \in { "fetching", "done" }
    ]_vars

\* a second run, a day after the first, has refetched the catalog and goes
\* on with a mapping that lacks Bottle of Beer
WitC19 ==
  /\ pc = "fetching"
  /\ runsLeft = MaxRuns - 2
  /\ itemRequests = Len(ITEM_CATEGORIES)
  /\ clockMs = DayStartMs(Today + 1) + 12 * MsPerHour
  /\ itemCache.stored
  /\ itemCache.timestamp = clockMs
  /\ DOMAIN itemMapping = {206}

-----------------------------------------------------------------------------
(* Claims about calculateBazaarAnalytics *)

\* the positions in probe of the trades of the item, and of its purchases
\* and sales
TradesOf(itemName) == { i \in 1..Len(probe) : probe[i].itemName = itemName }

PurchasesOf(itemName) == { i \in TradesOf(itemName) : ~probe[i].isSale }

SalesOf(itemName) == { i \in TradesOf(itemName) : probe[i].isSale }

TotalAmountAt(S) == SumOver([ i \in S |-> probe[i].totalAmount ], S)

QuantityAt(S) == SumOver([ i \in S |-> probe[i].quantity ], S)

\* the fraction r is total / quantity, or 0 if the quantity is 0
IsAverage(r, total, quantity) ==
  /\ r.den # 0
  /\ IF quantity = 0 THEN r.num = 0 ELSE r.num * quantity = total * r.den

\* the fraction r is (sell - buy) / buy * 100 for sell = soldTotal / soldQty
\* (0 if soldQty is 0) and buy = boughtTotal / boughtQty, or 0 if buy is 0
IsMargin(r, soldTotal, soldQty, boughtTotal, boughtQty) ==
  /\ r.den # 0
  /\ IF boughtQty = 0 \/ boughtTotal = 0 THEN r.num = 0
     ELSE IF soldQty = 0 THEN r.num = (0 - 100) * r.den
     ELSE r.num * (soldQty * boughtTotal) =
            100 * (soldTotal * boughtQty - boughtTotal * soldQty) * r.den

\* C20: for each item name among the trades, calculateBazaarAnalytics
\* returns one ItemAnalytics whose totalBought, totalSold and quantities
\* are the sums over the item's purchases and sales, whose average prices
\* are total / quantity (0 if the quantity is 0), whose profitMargin is
\* (avgSell - avgBuy) / avgBuy * 100 (0 if avgBuy is 0), whose netProfit is
\* totalSold - totalBought, whose transactionCount is the number of the
\* item's trades and whose lastActivity is their latest timestamp.
CexC20 ==
  probeOut.op = "calculateBazaarAnalytics" =>
    LET analytics == probeOut.result.itemAnalytics
    IN  \A itemName \in { probe[i].itemName : i \in 1..Len(probe) } :
          LET bought == TotalAmountAt(PurchasesOf(itemName))
              sold == TotalAmountAt(SalesOf(itemName))
              boughtQty == QuantityAt(PurchasesOf(itemName))
              soldQty == QuantityAt(SalesOf(itemName))
          IN  /\ Cardinality({ k \in 1..Len(analytics) :
                                 analytics[k].itemName = itemName }) = 1
              /\ \A k \in 1..Len(analytics) :
                   analytics[k].itemName = itemName =>
                     /\ analytics[k].totalBought = bought
                     /\ analytics[k].totalSold = sold
                     /\ analytics[k].totalQuantityBought = boughtQty
                     /\ analytics[k].totalQuantitySold = soldQty
                     /\ IsAverage(analytics[k].avgBuyPrice, bought, boughtQty)
                     /\ IsAverage(analytics[k].avgSellPrice, sold, soldQty)
                     /\ IsMargin(analytics[k].profitMargin, sold, soldQty,
                                 bought, boughtQty)
                     /\ analytics[k].netProfit = sold - bought
                     /\ analytics[k].transactionCount =
                          Cardinality(TradesOf(itemName))
                     /\ analytics[k].lastActivity =
                          Max({ probe[i].timestamp : i \in TradesOf(itemName) })

\* the positions in probe of the trades with the partner, and of those of
\* them that trade the item
TradesWith(partnerName) ==
  { i \in 1..Len(probe) : probe[i].tradingPartner = partnerName }

TradesWithOf(partnerName, itemName) ==
  { i \in TradesWith(partnerName) : probe[i].itemName = itemName }

\* the item is traded with the partner at least as often as any other item,
\* and was seen before every other item traded as often
IsMostTraded(itemName, partnerName) ==
  /\ TradesWithOf(partnerName, itemName) # {}
  /\ \A i \in TradesWith(partnerName) :
       LET other == probe[i].itemName
           count == Cardinality(TradesWithOf(partnerName, itemName))
           otherCount == Cardinality(TradesWithOf(partnerName, other))
       IN  other # itemName =>
             \/ otherCount < count
             \/ /\ otherCount = count
                /\ Min(TradesWithOf(partnerName, itemName)) <
                     Min(TradesWithOf(partnerName, other))

\* C21: for each trading partner among the trades, calculateBazaarAnalytics
\* returns one TradingPartnerAnalytics whose totalTransactions is the number
\* of trades with the partner, whose totalVolume is the sum of their
\* totalAmount whatever the direction, whose lastTransaction is their latest
\* timestamp and whose mostTradedItem is the item with the highest count
\* among them, the item seen first winning a tie.
ThmC21 ==
  probeOut.op = "calculateBazaarAnalytics" =>
    LET partners == probeOut.result.tradingPartners
    IN  \A partnerName \in { probe[i].tradingPartner : i \in 1..Len(probe) } :
          /\ Cardinality({ k \in 1..Len(partners) :
                             partners[k].partnerName = partnerName }) = 1
          /\ \A k \in 1..Len(partners) :
               partners[k].partnerName = partnerName =>
                 /\ partners[k].totalTransactions =
                      Cardinality(TradesWith(partnerName))
                 /\ partners[k].totalVolume =
                      TotalAmountAt(TradesWith(partnerName))
                 /\ partners[k].lastTransaction =
                      Max({ probe[i].timestamp : i \in TradesWith(partnerName) })
                 /\ IsMostTraded(partners[k].mostTradedItem, partnerName)

\* the analytics of three trades with one partner were computed: a purchase
\* of one item first, then two sales of another, which is the most traded
WitC21 ==
  /\ probeOut.op = "calculateBazaarAnalytics"
  /\ Len(probe) = 3
  /\ Len(probeOut.result.tradingPartners) = 1
  /\ ~probe[1].isSale /\ probe[2].isSale /\ probe[3].isSale
  /\ probe[1].itemName # probe[2].itemName
  /\ probe[2].itemName = probe[3].itemName
  /\ probeOut.result.tradingPartners[1].mostTradedItem = probe[2].itemName
  /\ probeOut.result.tradingPartners[1].totalVolume =
       probe[1].totalAmount + probe[2].totalAmount + probe[3].totalAmount

-----------------------------------------------------------------------------
(* Claims about displayBazaarAnalytics *)

\* the trades of the whole range, in the order of the days of probe
RECURSIVE RangeTrades(_)
RangeTrades(n) ==
  IF n = 0 THEN <<>>
  ELSE RangeTrades(n - 1) \o probe[n].bazaarAnalytics.bazaarTransactions

\* where the per-day records of the item are: day and position
ItemPartials(itemName) ==
  { p \in (1..Len(probe)) \X (1..MaxTrades + 1) :
      /\ p[2] <= Len(probe[p[1]].bazaarAnalytics.itemAnalytics)
      /\ probe[p[1]].bazaarAnalytics.itemAnalytics[p[2]].itemName = itemName }

ItemPartial(p) == probe[p[1]].bazaarAnalytics.itemAnalytics[p[2]]

\* C22: the merged ItemAnalytics of an item has the sums of the per-day
\* totals and quantities, and the avgBuyPrice, avgSellPrice and profitMargin
\* that aggregating all trades of the range at once gives; the call leaves
\* the per-day records of dailyProfits as they were.
ThmC22 ==
  probeOut.op = "displayBazaarAnalytics" =>
    LET merged == probeOut.result.itemAnalytics
        atOnce == calculateBazaarAnalytics(RangeTrades(Len(probe))).itemAnalytics
    IN  /\ probeOut.result.dailyProfits = probe
        /\ \A a \in 1..Len(atOnce) :
             LET S == ItemPartials(atOnce[a].itemName)
             IN  /\ Cardinality({ k \in 1..Len(merged) :
                                    merged[k].itemName = atOnce[a].itemName }) = 1
                 /\ \A k \in 1..Len(merged) :
                      merged[k].itemName = atOnce[a].itemName =>
                        /\ merged[k].totalBought =
                             SumOver([ p \in S |-> ItemPartial(p).totalBought ], S)
                        /\ merged[k].totalSold =
                             SumOver([ p \in S |-> ItemPartial(p).totalSold ], S)
                        /\ merged[k].totalQuantityBought =
                             SumOver([ p \in S |->
                                         ItemPartial(p).totalQuantityBought ], S)
                        /\ merged[k].totalQuantitySold =
                             SumOver([ p \in S |->
                                         ItemPartial(p).totalQuantitySold ], S)
                        /\ merged[k].avgBuyPrice = atOnce[a].avgBuyPrice
                        /\ merged[k].avgSellPrice = atOnce[a].avgSellPrice
                        /\ merged[k].profitMargin = atOnce[a].profitMargin

\* two days were merged in which Xanax was bought at 8 a piece (3) and at 10
\* a piece (1) and sold: the merged average buy price is 34 / 4
WitC22 ==
  /\ probeOut.op = "displayBazaarAnalytics"
  /\ Len(probe) = 2
  /\ Cardinality(ItemPartials("Xanax")) = 2
  /\ \E k \in 1..Len(probeOut.result.itemAnalytics) :
       LET item == probeOut.result.itemAnalytics[k]
       IN  /\ item.itemName = "Xanax"
           /\ item.totalBought = 34
           /\ item.totalQuantityBought = 4
           /\ item.totalQuantitySold = 3
           /\ item.avgBuyPrice.num * 4 = 34 * item.avgBuyPrice.den

\* the positions in the trades of the range of the trades with the partner,
\* and of those of them that trade the item
RangeTradesWith(partnerName) ==
  { i \in 1..Len(RangeTrades(Len(probe))) :
      RangeTrades(Len(probe))[i].tradingPartner = partnerName }

RangeTradesWithOf(partnerName, itemName) ==
  { i \in RangeTradesWith(partnerName) :
      RangeTrades(Len(probe))[i].itemName = itemName }

\* no other item is traded with the partner more often in the range
HasHighestCount(itemName, partnerName) ==
  \A i \in RangeTradesWith(partnerName) :
    Cardinality(RangeTradesWithOf(partnerName,
                                  RangeTrades(Len(probe))[i].itemName))
      <= Cardinality(RangeTradesWithOf(partnerName, itemName))

\* C30: the merged TradingPartnerAnalytics of a partner has the number of
\* the partner's trades in the range, the sum of their totalAmount, their
\* latest timestamp and, as mostTradedItem, an item with the highest count
\* among all trades with the partner in the range.
CexC30 ==
  probeOut.op = "displayBazaarAnalytics" =>
    LET merged == probeOut.result.partnerAnalytics
        trades == RangeTrades(Len(probe))
    IN  \A k \in 1..Len(merged) :
          LET S == RangeTradesWith(merged[k].partnerName)
          IN  /\ merged[k].totalTransactions = Cardinality(S)
              /\ merged[k].totalVolume =
                   SumOver([ i \in S |-> trades[i].totalAmount ], S)
              /\ merged[k].lastTransaction =
                   Max({ trades[i].timestamp : i \in S })
              /\ HasHighestCount(merged[k].mostTradedItem,
                                 merged[k].partnerName)

-----------------------------------------------------------------------------
(* Claims about fetchLogs and the three concurrent calls *)

\* the entries of the log of a "paged" API that lie in the window of the run
InWindow(c) ==
  SelectSeq(api[c].log, LAMBDA l : l.timestamp >= fromTimestamp
                                     /\ l.timestamp <= now)

\* C23: a round of fetchLogs whose request fails ends the call with the
\* entries accumulated before it, and the call sends no request after it;
\* the run still reaches its end, with a result built from what the three
\* calls returned.
ThmC23 ==
  /\ [][\A c \in Categories :
          /\ FetchPageError(c) =>
               /\ fetch'[c].status = "done"
               /\ fetch'[c].allLogs = fetch[c].allLogs
          /\ fetch[c].status = "done" /\ pc' = "fetching" =>
               fetch'[c] = fetch[c]]_vars
  /\ [](pc = "done" =>
          /\ \A c \in Categories :
               api[c].kind = "paged" /\ api[c].failAt = 1 =>
                 categoryLogs[c] = <<>>
          /\ \A c \in Categories :
               api[c].kind = "paged" /\ api[c].failAt = 2 =>
                 categoryLogs[c] =
                   SubSeq(InWindow(c), 1,
                          Min({ api[c].limit, Len(InWindow(c)) }))
          /\ allLogs = categoryLogs[13] \o categoryLogs[14] \o categoryLogs[17]
          /\ dailyProfits =
               processDailyProfits(sortByTimestamp(uniqueLogsMapValues(allLogs)),
                                   days, tz, clockMs, itemMapping))
  /\ (pc = "fetching" ~> pc = "done")

\* a run ended whose second request for the money log failed: the page of
\* the first request and the entries of the other logs are in the result
WitC23 ==
  /\ pc = "done"
  /\ api[13].kind = "paged"
  /\ api[13].failAt = 2
  /\ api[13].limit = 1
  /\ categoryLogs[13] = << MoneyLog[1] >>
  /\ Len(deduplicatedLogs) = 2
  /\ Len(dailyProfits) = days

\* what fetchLogs(c, ...) returns when it runs with no other call: the
\* rounds of the call one after the other, each answered by the API of c
RECURSIVE AloneFrom(_, _)
AloneFrom(c, f) ==
  IF f.status = "done" THEN f.allLogs
  ELSE LET response ==
             IF api[c].failAt = f.batchCount + 1 THEN [ failed |-> TRUE ]
             ELSE IF api[c].kind = "paged"
             THEN pagedResponse(api[c].log, api[c].limit, fromTimestamp,
                                f.currentTo)
             ELSE [ failed |-> FALSE, log |-> api[c].page, prev |-> TRUE ]
       IN  AloneFrom(c, afterRound(fetchRound(f, fromTimestamp, response)))

Alone(c) ==
  AloneFrom(c, [ status |-> "running", allLogs |-> <<>>, currentTo |-> now,
                 hasMore |-> TRUE, batchCount |-> 0 ])

\* C24: whatever the order in which the rounds of the three fetchLogs calls
\* are taken, the run returns the DailyProfit[] that the calls give when
\* each runs on its own.
ThmC24 ==
  pc = "done" =>
    /\ \A c \in Categories : categoryLogs[c] = Alone(c)
    /\ dailyProfits =
         processDailyProfits(
           sortByTimestamp(uniqueLogsMapValues(Alone(13) \o Alone(14)
                                                 \o Alone(17))),
           days, tz, clockMs, itemMapping)

\* a run ended in which the call for the money log needed three requests
\* and the calls for the other logs one each
WitC24 ==
  /\ pc = "done"
  /\ api[13].kind = "paged"
  /\ api[13].failAt = 0
  /\ api[13].limit = 1
  /\ Len(categoryLogs[13]) = 3
  /\ Len(categoryLogs[14]) = 1
  /\ Len(categoryLogs[17]) = 1
  /\ \E i \in 1..Len(dailyProfits) : dailyProfits[i].income > 0

\* a round of the call for category c was taken, and the call goes on
RoundGoesOn(c) ==
  /\ fetch[c].status = "running"
  /\ fetch'[c].status = "running"
  /\ fetch'[c].batchCount = fetch[c].batchCount + 1

\* C28 as stated: a call sends at most 50 requests, and each request of a
\* call has a smaller `to` than the request before it.
CexC28 ==
  /\ [](\A c \in Categories : fetch[c].batchCount < maxBatches)
  /\ [][\A c \in Categories :
          RoundGoesOn(c) => fetch'[c].currentTo < fetch[c].currentTo]_vars

\* C28, amended: a call sends at most 50 requests, and a request has a
\* smaller `to` than the request before it if the page that came back for
\* that one ends with an entry that is not later than its `to`.
ThmC28 ==
  /\ [](\A c \in Categories : fetch[c].batchCount < maxBatches)
  /\ [][\A c \in Categories :
          /\ RoundGoesOn(c)
          /\ fetch'[c].allLogs # <<>>
          /\ fetch'[c].allLogs[Len(fetch'[c].allLogs)].timestamp
               <= fetch[c].currentTo
          => fetch'[c].currentTo < fetch[c].currentTo]_vars

\* the call for the money log returned after 50 requests, each answered
\* with the same page of one entry
WitC28 ==
  /\ api[13].kind = "stubborn"
  /\ fetch[13].status = "done"
  /\ Len(fetch[13].allLogs) = maxBatches

\* C29: when no request fails, a call returns each entry of the category's
\* log that lies in the window once, and no entry older than the window.
CexC29 ==
  pc = "done" =>
    \A c \in Categories :
      api[c].kind = "paged" /\ api[c].failAt = 0 =>
        /\ \A i \in 1..Len(InWindow(c)) :
             Cardinality({ k \in 1..Len(categoryLogs[c]) :
                             categoryLogs[c][k] = InWindow(c)[i] }) = 1
        /\ \A k \in 1..Len(categoryLogs[c]) :
             categoryLogs[c][k].timestamp >= fromTimestamp

\* C27: keep-first-by-id deduplication applied to its own output returns
\* that output, entry for entry and in the same order: uniqueLogs is the
\* deduplication of the combined list of the run.
ThmC27 ==
  pc = "done" => uniqueLogsMapValues(uniqueLogs) = uniqueLogs

\* a run ended whose combined list had two ids twice: the deduplicated list
\* is shorter, has more than one entry and is its own deduplication
WitC27 ==
  /\ pc = "done"
  /\ Len(allLogs) = 6
  /\ Len(uniqueLogs) = 4
  /\ uniqueLogsMapValues(uniqueLogs) = uniqueLogs

-----------------------------------------------------------------------------
(* Claims about the buttons of the page *)

\* an analyzeProfitForDays call is in progress
RunInProgress == pc \in { "loadingItems", "fetching" }

\* C25: while a run is in progress the analyze button is disabled and the
\* error section with the retry button is hidden, so that no click can
\* start a second run over the same ProfitLogger; when no run is in
\* progress, after a run that completed or failed, the analyze button is
\* enabled.
ThmC25 ==
  /\ RunInProgress => \A button \in Buttons : ~Clickable(button)
  /\ RunInProgress => ui.analyzeDisabled
  /\ ~RunInProgress => ~ui.analyzeDisabled

\* a second run is in progress, started after the first one had completed
WitC25 ==
  /\ pc = "fetching"
  /\ runsLeft = MaxRuns - 2
  /\ hasApi
  /\ ui.analyzeDisabled
  /\ ui.errorHidden
  /\ \E c \in Categories : fetch[c].allLogs # <<>>

-----------------------------------------------------------------------------
(* Claims about TornExchangeAPI *)

\* C26: any two HTTP requests sent through one TornExchangeAPI start at
\* least requestDelay (6 seconds) apart, whenever its methods are called,
\* also when a method is called while an earlier call still waits
CexC26 ==
  \A i, j \in 1..Len(requestTimes) :
    i < j => requestTimes[j] - requestTimes[i] >= requestDelay

====
